---- MODULE Spec2Model ----
(***************************************************************************)
(* Model of ibrobot: the 5-second bar collector (core/bars_collector.py)   *)
(* and the position watcher of robot.py.                                   *)
(*                                                                         *)
(* Time is in whole UTC epoch seconds: every datetime the collector hands   *)
(* to the feed or compares a bar against goes through int() (_to_epoch,     *)
(* int(total_seconds())) or through the feed's second-resolution request.   *)
(***************************************************************************)
EXTENDS Integers, Sequences, FiniteSets, Bags, TLC

VARIABLES
    clock,        \* wall clock, epoch seconds (datetime.now)
    feedTs,       \* per contract, timestamps of the bars the feed holds
    feedRev,      \* revision in which the feed currently delivers its bars
    tables,       \* sqlite: symbol -> NoTable or the bag of rows of its table
    connOpen,     \* BarsCollector._conn is open
    cfgActive,    \* BarsCollector.cfg.active_local_symbol
    tracked,      \* BarsCollector._tracked, in dict insertion order
    running,      \* BarsCollector._running
    pc,           \* position of BarsCollector.run()
    symList,      \* list(self._tracked.keys()) being iterated by run()
    idx,          \* index of the symbol of symList being processed
    bf,           \* locals of _backfill_from_db_tail / _fetch_and_store_range
    req,          \* the feed request last issued by _req_bars (NoReq before)
    ticks,        \* completed iterations of the incremental loop
    stopPc,       \* position of BarsCollector.stop()
    firstRow,     \* history: symbol -> rows as first delivered to the store
    lastIns,      \* history: symbol and batch of the last _bulk_insert_ignore
    baseline,     \* robot.PortfolioWatcher._baseline: conId -> qty
    attached,     \* robot.PortfolioWatcher._attached
    events,       \* number of events logged by robot.PortfolioWatcher
    lastUpd,      \* history: the update last handled since subscribing
    trace,        \* history: quantities delivered for one instrument, in order
    evlog,        \* history: the events emitted for that instrument, in order
    ibConnected,  \* ib.isConnected()
    pos,          \* core PortfolioWatcher._pos: conId -> qty
    subscribed,   \* core PortfolioWatcher._subscribed
    handlers_attached, \* core PortfolioWatcher._handlers_attached
    watcherStop,  \* core PortfolioWatcher._stop is set
    cwPc,         \* position of core PortfolioWatcher.start()
    snapTasks,    \* _on_connected_async tasks waiting for reqPositionsAsync
    subTasks,     \* _on_connected_async tasks in _ensure_subscribed
    held,         \* the positions at the broker: conId -> qty
    moved,        \* history: conId -> its position changed during this connection
    cwLast,       \* history: the update the core watcher handled in the last step
    svcConnected, \* IBConnectionService.ib.isConnected()
    backoff,      \* IBConnectionService._backoff.current, in half seconds
    monPc,        \* position of connect_initial / monitor_forever
    stop_event,   \* the stop_event passed to monitor_forever is set
    waits,        \* history: the delays slept before the attempts since the last success
    prevFails,    \* history: failed attempts that preceded the last success
    rosterSeed,   \* the identifier a roster computation started from
    rosterIn,     \* the identifier given to _neighbors_quarter
    rosterOut,    \* its outcome: none yet, an error, or (prev, active, next)
    rosterPath,   \* the neighbour steps taken from the seed to rosterIn
    wall,         \* wall clock of the grid sleep, in tenths of a second
    gridPc,       \* the poll loop works on a tick or sleeps to the grid
    lastWork,     \* history: duration of the last tick, in tenths
    lastSleep,    \* history: duration of the last grid sleep, in tenths
    wakes,        \* history: number of wake-ups so far
    tgCall,       \* the last call of TelegramClient.send_text_sync / send_text
    tgResult,     \* its outcome: raised or returned, and the chunks posted
    nfMode,       \* how the notification capability behaves in this run
    nfEscaped,    \* an exception left a handler of a position watcher
    nfTasks,      \* send tasks created by robot.py's handler, not yet ended
    nfFailed,     \* history: a notification ended undelivered
    amPc,         \* position of robot.amain
    amConn,       \* amain's ib.isConnected()
    amCycle,      \* PortfolioWatcher objects amain has constructed
    amHandlers,   \* watchers whose handler is on ib.updatePortfolioEvent
    amRetry,      \* amain's retry, in half seconds
    pumpQ,        \* TelegramLogPump._q: message numbers, 0 is the None sentinel
    pumpPc,       \* position of TelegramLogPump._run
    pumpItem,     \* the item _run is sending
    pumpStopPc,   \* position of TelegramLogPump.stop()
    pumpSent,     \* send() calls made so far
    pumpSentAtStop, \* send() calls made when stop() was called
    pumpDelivered, \* messages handed to send_text_sync, in order
    pumpDropped   \* messages removed by a send() that found the queue full

barsVars == <<clock, feedTs, feedRev, tables, connOpen, cfgActive, tracked, running,
              pc, symList, idx, bf, req, ticks, stopPc, firstRow, lastIns>>
pwVars == <<baseline, attached, events, lastUpd>>
seqVars == <<trace, evlog>>
cwVars == <<ibConnected, pos, subscribed, handlers_attached, watcherStop, cwPc,
            snapTasks, subTasks, held, moved, cwLast>>
monVars == <<svcConnected, backoff, monPc, stop_event, waits, prevFails>>
rosVars == <<rosterSeed, rosterIn, rosterOut, rosterPath>>
gridVars == <<wall, gridPc, lastWork, lastSleep, wakes>>
tgVars == <<tgCall, tgResult>>
nfVars == <<nfMode, nfEscaped, nfTasks, nfFailed>>
amVars == <<amPc, amConn, amCycle, amHandlers, amRetry>>
pumpVars == <<pumpQ, pumpPc, pumpItem, pumpStopPc, pumpSent, pumpSentAtStop, pumpDelivered, pumpDropped>>
vars == <<barsVars, pwVars, seqVars, cwVars, monVars, rosVars, gridVars, tgVars, nfVars, amVars, pumpVars>>

\* what the steps of one component leave alone
nonBarsVars == <<pwVars, seqVars, cwVars, monVars, rosVars, gridVars, tgVars, nfVars, amVars, pumpVars>>
nonPwVars == <<barsVars, cwVars, monVars, rosVars, gridVars, tgVars, nfVars, amVars, pumpVars>>
nonCwVars == <<barsVars, pwVars, seqVars, monVars, rosVars, gridVars, tgVars, nfVars, amVars, pumpVars>>
nonMonVars == <<barsVars, pwVars, seqVars, cwVars, rosVars, gridVars, tgVars, nfVars, amVars, pumpVars>>
nonRosVars == <<barsVars, pwVars, seqVars, cwVars, monVars, gridVars, tgVars, nfVars, amVars, pumpVars>>
nonGridVars == <<barsVars, pwVars, seqVars, cwVars, monVars, rosVars, tgVars, nfVars, amVars, pumpVars>>
nonTgVars == <<barsVars, pwVars, seqVars, cwVars, monVars, rosVars, gridVars, nfVars, amVars, pumpVars>>
nonNfVars == <<barsVars, pwVars, seqVars, cwVars, monVars, rosVars, gridVars, tgVars, amVars, pumpVars>>
nonPwNfVars == <<barsVars, cwVars, monVars, rosVars, gridVars, tgVars, amVars, pumpVars>>
nonCwNfVars == <<barsVars, pwVars, seqVars, monVars, rosVars, gridVars, tgVars, amVars, pumpVars>>
nonAmVars == <<barsVars, pwVars, seqVars, cwVars, monVars, rosVars, gridVars, tgVars, nfVars, pumpVars>>
nonPumpVars == <<barsVars, pwVars, seqVars, cwVars, monVars, rosVars, gridVars, tgVars, nfVars, amVars>>

----------------------------------------------------------------------------
(* Small helpers *)

\* Optional[int]: None is the empty set, a value x is {x}
None == {}
Some(x) == {x}
Val(o) == CHOOSE x \in o : TRUE

Min(a, b) == IF a <= b THEN a ELSE b
Max(a, b) == IF a >= b THEN a ELSE b
Abs(x) == IF x < 0 THEN -x ELSE x

SetMax(S) == CHOOSE x \in S : \A y \in S : y <= x
SetMin(S) == CHOOSE x \in S : \A y \in S : x <= y

RECURSIVE SortedSeq(_)
SortedSeq(S) == IF S = {} THEN << >>
                ELSE <<SetMin(S)>> \o SortedSeq(S \ {SetMin(S)})

----------------------------------------------------------------------------
(* Contract roster: _parse_local_symbol / _neighbors_quarter.              *)
(* A symbol is a sequence of one-character strings.                         *)

MONTH_SEQ == <<"H", "M", "U", "Z">>

Digits == <<"0", "1", "2", "3", "4", "5", "6", "7", "8", "9">>

LowerToUpper == [c \in {"h", "m", "u", "z", "e", "s"} |->
                   CASE c = "h" -> "H" [] c = "m" -> "M" [] c = "u" -> "U"
                     [] c = "z" -> "Z" [] c = "e" -> "E" [] c = "s" -> "S"]

\* str.upper()
Upper(s) == [i \in 1..Len(s) |->
               IF s[i] \in DOMAIN LowerToUpper THEN LowerToUpper[s[i]] ELSE s[i]]

\* str.rfind(ch), 0-based, -1 when absent
RFind(s, ch) == IF \E i \in 1..Len(s) : s[i] = ch
                THEN SetMax({i \in 1..Len(s) : s[i] = ch}) - 1
                ELSE -1

IsDigit(c) == \E d \in 1..10 : Digits[d] = c
DigitVal(c) == (CHOOSE d \in 1..10 : Digits[d] = c) - 1

\* value of a string of decimal digits
RECURSIVE NatOf(_)
NatOf(s) == IF Len(s) = 0 THEN 0
            ELSE 10 * NatOf(SubSeq(s, 1, Len(s) - 1)) + DigitVal(s[Len(s)])

\* the part of an int literal after its optional sign
Unsigned(s) == IF Len(s) > 0 /\ s[1] \in {"+", "-"} THEN Tail(s) ELSE s

\* int(year_tail): an optional sign and decimal digits (the identifiers
\* considered hold no white space and no underscore)
IntOf(s) == IF s[1] = "-" THEN -NatOf(Unsigned(s)) ELSE NatOf(Unsigned(s))

\* int(year_tail) does not raise ValueError
IsInt(s) == /\ Len(Unsigned(s)) > 0
            /\ \A i \in 1..Len(Unsigned(s)) : IsDigit(Unsigned(s)[i])

\* f"{n}" for an int
RECURSIVE NatStr(_)
NatStr(n) == IF n < 10 THEN <<Digits[n + 1]>>
             ELSE NatStr(n \div 10) \o <<Digits[(n % 10) + 1]>>

IntStr(n) == IF n < 0 THEN <<"-">> \o NatStr(-n) ELSE NatStr(n)

ParseError == [ok |-> FALSE]

\* mutant: the first month letter is taken instead of the last
ParseAtFirstMonth(local_symbol) ==
    LET s == Upper(local_symbol)
        P == {i \in 1..Len(s) : \E m \in 1..4 : s[i] = MONTH_SEQ[m]}
        idx0 == IF P = {} THEN -1 ELSE SetMin(P) - 1
    IN IF idx0 <= 0 \/ idx0 = Len(s) - 1
       THEN ParseError
       ELSE [ok |-> TRUE,
             root |-> SubSeq(s, 1, idx0),
             mon |-> s[idx0 + 1],
             year_tail |-> SubSeq(s, idx0 + 2, Len(s))]

\* _parse_local_symbol: (root, mon, year_tail) or ValueError
ParseLocalSymbol(local_symbol) ==
    LET s == Upper(local_symbol)
        idx0 == SetMax({RFind(s, MONTH_SEQ[m]) : m \in 1..4})
    IN IF idx0 <= 0 \/ idx0 = Len(s) - 1
       THEN ParseError
       ELSE LET year_tail == SubSeq(s, idx0 + 2, Len(s))
            IN IF Len(year_tail) = 0
               THEN ParseError
               ELSE [ok |-> TRUE,
                     root |-> SubSeq(s, 1, idx0),
                     mon |-> s[idx0 + 1],
                     year_tail |-> year_tail]

MonthIndex(mon) == (CHOOSE i \in 1..4 : MONTH_SEQ[i] = mon) - 1

\* mutant: the neighbours are built without the corrections for H and Z
NeighborsQuarterPlain(local_symbol) ==
    LET p == ParseLocalSymbol(local_symbol)
    IN IF ~p.ok THEN ParseError
       ELSE IF ~IsInt(p.year_tail) THEN ParseError
       ELSE LET i == MonthIndex(p.mon)
                prev_mon == MONTH_SEQ[((i - 1) % 4) + 1]
                next_mon == MONTH_SEQ[((i + 1) % 4) + 1]
                year_int == IntOf(p.year_tail)
                next_year == IF p.mon # "Z" THEN year_int ELSE year_int + 1
            IN [ok |-> TRUE,
                prev |-> p.root \o <<prev_mon>> \o IntStr(year_int),
                next |-> p.root \o <<next_mon>> \o IntStr(next_year)]

\* _neighbors_quarter: (prev, next) or ValueError
NeighborsQuarter(local_symbol) ==
    LET p == ParseLocalSymbol(local_symbol)
    IN IF ~p.ok THEN ParseError
       ELSE IF ~IsInt(p.year_tail) THEN ParseError
       ELSE LET i == MonthIndex(p.mon)
                prev_mon == MONTH_SEQ[((i - 1) % 4) + 1]
                next_mon == MONTH_SEQ[((i + 1) % 4) + 1]
                year_int == IntOf(p.year_tail)
                next_year == IF p.mon # "Z" THEN year_int ELSE year_int + 1
                prev_sym0 == p.root \o <<prev_mon>> \o IntStr(year_int)
                next_sym0 == p.root \o <<next_mon>> \o IntStr(next_year)
                prev_sym == IF p.mon = "H"
                            THEN p.root \o <<"U">> \o IntStr(year_int - 1)
                            ELSE prev_sym0
                next_sym == IF p.mon = "Z"
                            THEN p.root \o <<"H">> \o IntStr(year_int + 1)
                            ELSE next_sym0
            IN [ok |-> TRUE, prev |-> prev_sym, next |-> next_sym]

----------------------------------------------------------------------------
(* Parameters of the collector (BarsCollectorConfig defaults and literals) *)

Day == 86400                \* timedelta(days=1), in seconds
BackfillMaxDays == 10       \* cfg.backfill_max_days
ShortWindowSeconds == 40    \* cfg.short_window_seconds
MinDuration == 30           \* max(duration, 30) / max(30, short_window_seconds)
BarStep == 5                \* timedelta(seconds=5) after the last stored bar
Grid == 5                   \* _sleep_to_next_5s

(* Bounds of the model *)

MaxTicks == 1               \* iterations of the incremental loop explored
MaxElapsed == 1             \* seconds the clock may advance outside sleeps
EarlySlack == 5             \* how far before the requested start the feed may reach

StartTimes == {1000000}     \* clock values at construction

InitialActive == <<"E", "S", "Z", "5">>
ActiveSymbols == { InitialActive, <<"E", "S", "H", "6">> }

Roster(active) == LET n == NeighborsQuarter(active)
                  IN <<n.prev, Upper(active), n.next>>

AllSyms == UNION { {Roster(a)[i] : i \in 1..3} : a \in ActiveSymbols }

\* symbols the feed has no bars for: the far contract M has not traded yet,
\* the expired contract U is no longer served
QuietSyms == {s \in AllSyms : ParseLocalSymbol(s).mon \in {"M", "U"}}

----------------------------------------------------------------------------
(* The feed: ib.reqHistoricalDataAsync behind _req_bars *)

\* the feed delivers a bar first in revision 1 and, once it has revised its
\* bars, in revision 2 (other values for the same timestamp)
LastRevision == 2

FeedBar(ts, v) == [date |-> ts, open |-> 100 + v, high |-> 110 + v,
                   low |-> 90 + v, close |-> 105 + v, volume |-> 10 * v,
                   wap |-> 102 + v, barCount |-> v]

\* timestamps the feed may hold, relative to the start time n
FeedCandidates(n) == {n - BackfillMaxDays * Day, n - Day - 5, n - Day,
                      n - 20, n - 15, n - 7, n, n + 5}

FeedOf(sym) == feedTs[sym]

\* bars returned for (endDateTime = end, durationStr = dur seconds): every
\* held bar of [end - dur, end], and when early, also those up to EarlySlack
\* seconds before; sorted by time, all in revision v
Response(sym, end, dur, v, early) ==
    LET lo == IF early THEN end - dur - EarlySlack ELSE end - dur
        S == {t \in FeedOf(sym) : lo <= t /\ t <= end}
        ord == SortedSeq(S)
    IN [i \in 1..Len(ord) |-> FeedBar(ord[i], v)]

----------------------------------------------------------------------------
(* The store: one sqlite table per symbol, ts INTEGER PRIMARY KEY *)

\* _to_epoch on the int a bar carries with formatDate=2
ToEpoch(bar_date) == bar_date

\* the tuple built from a BarData in _incremental_fetch / _fetch_and_store_range
RowOf(b) == [ts |-> ToEpoch(b.date), open |-> b.open, high |-> b.high,
             low |-> b.low, close |-> b.close, volume |-> b.volume,
             wap |-> b.wap, count |-> b.barCount]

NoTable == [exists |-> FALSE, rows |-> EmptyBag]

Rows(t) == BagToSet(t.rows)
HasTs(t, ts) == \E r \in Rows(t) : r.ts = ts

\* mutant: the table is created anew on every call
EnsureTableFresh(t) == [exists |-> TRUE, rows |-> EmptyBag]

\* _ensure_table: CREATE TABLE IF NOT EXISTS
EnsureTable(t) == IF t.exists THEN t ELSE [exists |-> TRUE, rows |-> EmptyBag]

\* mutant: INSERT OR REPLACE
InsertOrReplace(t, row) ==
    [t EXCEPT !.rows = SetToBag({r \in Rows(t) : r.ts # row.ts} \cup {row})]

\* mutant: plain INSERT into a table without the primary key
InsertAlways(t, row) == [t EXCEPT !.rows = @ (+) SetToBag({row})]

\* one INSERT OR IGNORE
InsertOrIgnore(t, row) ==
    IF HasTs(t, row.ts) THEN t
    ELSE [t EXCEPT !.rows = @ (+) SetToBag({row})]

\* _bulk_insert_ignore: executemany over the rows in order
RECURSIVE BulkInsertIgnore(_, _)
BulkInsertIgnore(t, rows) ==
    IF Len(rows) = 0 THEN t
    ELSE BulkInsertIgnore(InsertOrIgnore(t, Head(rows)), Tail(rows))

\* _get_db_last_ts on an open connection: SELECT MAX(ts), None without table
GetDbLastTs(t) ==
    IF ~t.exists \/ Rows(t) = {} THEN None
    ELSE Some(SetMax({r.ts : r \in Rows(t)}))

\* mutant: the cache is not advanced after a write
AdvanceLastTsNever(trk, sym, new_tail) == trk

\* self._tracked[symbol]["last_ts"] = max(last_ts or 0, new_tail)
AdvanceLastTs(trk, sym, new_tail) ==
    [i \in 1..Len(trk) |->
        IF trk[i].sym = sym
        THEN [trk[i] EXCEPT !.last_ts =
                 Some(Max(IF @ = None THEN 0 ELSE Val(@), new_tail))]
        ELSE trk[i]]

Keys(trk) == [i \in 1..Len(trk) |-> trk[i].sym]
KeySet(trk) == {trk[i].sym : i \in 1..Len(trk)}

\* rows first delivered per timestamp: known ones plus the first row of the
\* batch for every timestamp not known yet
FirstDeliveries(known, batch) ==
    known \cup {batch[i] : i \in {j \in 1..Len(batch) :
                    /\ \A r \in known : r.ts # batch[j].ts
                    /\ \A k \in 1..(j - 1) : batch[k].ts # batch[j].ts}}

----------------------------------------------------------------------------
(* Initial state: BarsCollector.__init__ over a database left by earlier    *)
(* runs                                                                     *)

\* timestamps already stored at construction, relative to the start time n:
\* nothing, a recent bar, a bar more than a day old, a bar older than the
\* backfill limit
StoredChoices(n) == << {}, {n - 10}, {n - Day - 20},
                      {n - BackfillMaxDays * Day - 10} >>

FeedChoices(n) ==
    { [s \in AllSyms |-> IF s \in QuietSyms THEN {} ELSE FeedCandidates(n)] }

StoredTable(S) == IF S = {} THEN NoTable
                  ELSE [exists |-> TRUE,
                        rows |-> SetToBag({RowOf(FeedBar(t, 1)) : t \in S})]

NoBf == [sym |-> << >>, L |-> None, now |-> 0, start0 |-> 0,
         start |-> 0, cur_end |-> 0, finalDone |-> FALSE]

NoIns == [sym |-> << >>, rows |-> << >>]

NoReq == [kind |-> "none", sym |-> << >>, end |-> 0, dur |-> 0]

\* _setup_tracked_set: prev, active, next with last_ts read from the database
SetupTrackedSet(active, tbls) ==
    LET r == Roster(active)
    IN [i \in 1..3 |-> [sym |-> r[i], last_ts |-> GetDbLastTs(tbls[r[i]])]]

\* the collector constructed for the given active symbol over a database
\* holding the k-th choice of stored timestamps for every contract that has
\* traded
InitCollectorAt(active, k) ==
    /\ clock \in StartTimes
    /\ feedTs \in FeedChoices(clock)
    /\ feedRev = 1
    /\ tables = [s \in AllSyms |->
                   IF ParseLocalSymbol(s).mon = "M" THEN NoTable
                   ELSE StoredTable(StoredChoices(clock)[k])]
    /\ connOpen = TRUE
    /\ cfgActive = active
    /\ tracked = SetupTrackedSet(cfgActive, tables)
    /\ running = FALSE
    /\ pc = "new"
    /\ symList = << >>
    /\ idx = 1
    /\ bf = NoBf
    /\ req = NoReq
    /\ ticks = 0
    /\ stopPc = "idle"
    /\ firstRow = [s \in DOMAIN tables |-> Rows(tables[s])]
    /\ lastIns = NoIns

\* the collector constructed for the initial active symbol
InitCollector(k) == InitCollectorAt(InitialActive, k)

InitBars == \E k \in 1..Len(StoredChoices(0)) : InitCollector(k)

\* a collector over an empty database
InitBarsEmpty == InitCollector(1)

----------------------------------------------------------------------------
(* BarsCollector.run: backfill phase *)

\* run() up to the first symbol of the backfill loop
Run ==
    /\ pc = "new"
    /\ running' = TRUE
    /\ symList' = Keys(tracked)
    /\ idx' = 1
    /\ pc' = "backfill"
    /\ UNCHANGED <<clock, feedTs, feedRev, tables, connOpen, cfgActive, tracked, bf,
                   req, ticks, stopPc, firstRow, lastIns>>

\* mutant: the lower limit now - backfill_max_days is not applied
BackfillStartNoClamp(last_ts, now) ==
    IF last_ts = None THEN now - Min(1, BackfillMaxDays) * Day
    ELSE Val(last_ts) + BarStep

\* mutant: resumes at the last stored bar instead of the bar after it
BackfillStartNoStep(last_ts, now) ==
    LET start_dt == IF last_ts = None
                    THEN now - Min(1, BackfillMaxDays) * Day
                    ELSE Val(last_ts)
        min_dt == now - BackfillMaxDays * Day
    IN IF start_dt < min_dt THEN min_dt ELSE start_dt

\* start of the window range of _backfill_from_db_tail
BackfillStart(last_ts, now) ==
    LET start_dt == IF last_ts = None
                    THEN now - Min(1, BackfillMaxDays) * Day
                    ELSE Val(last_ts) + BarStep
        min_dt == now - BackfillMaxDays * Day
    IN IF start_dt < min_dt THEN min_dt ELSE start_dt

\* cur_end = start_dt + step, clamped to end_dt
WindowEnd(start_dt, end_dt) ==
    IF start_dt + Day > end_dt THEN end_dt ELSE start_dt + Day

\* one symbol of the backfill loop: _ensure_table, _backfill_from_db_tail and
\* _fetch_and_store_range up to its while loop; an exception (a closed
\* connection) is logged by run() and the loop goes on with the next symbol
BackfillSymbol ==
    /\ pc = "backfill"
    /\ idx <= Len(symList)
    /\ LET sym == symList[idx]
       IN IF ~connOpen
          THEN /\ idx' = idx + 1
               /\ UNCHANGED <<pc, tables, bf>>
          ELSE LET t == EnsureTable(tables[sym])
                   last_ts == GetDbLastTs(t)
                   start_dt == BackfillStart(last_ts, clock)
               IN /\ tables' = [tables EXCEPT ![sym] = t]
                  /\ bf' = [sym |-> sym, L |-> last_ts, now |-> clock,
                            start0 |-> start_dt, start |-> start_dt,
                            cur_end |-> WindowEnd(start_dt, clock),
                            finalDone |-> FALSE]
                  /\ pc' = "bf_loop"
                  /\ UNCHANGED idx
    /\ UNCHANGED <<clock, feedTs, feedRev, connOpen, cfgActive, tracked, running,
                   symList, req, ticks, stopPc, firstRow, lastIns>>

\* the backfill loop of run() is exhausted
BackfillDone ==
    /\ pc = "backfill"
    /\ idx > Len(symList)
    /\ pc' = "loop"
    /\ UNCHANGED <<clock, feedTs, feedRev, tables, connOpen, cfgActive, tracked,
                   running, symList, idx, bf, req, ticks, stopPc, firstRow, lastIns>>

\* the while condition of _fetch_and_store_range
WindowLoopCond(b) == b.cur_end <= b.now + 1

\* mutant: the duration is one second short of the window
WindowDurationShort(b) == Max(b.cur_end - b.start - 1, MinDuration)

\* duration of the request of the current window
WindowDuration(b) == Max(b.cur_end - b.start, MinDuration)

\* head of the while loop of _fetch_and_store_range: issue the request of the
\* current window, or leave the loop and return to run()
FetchRangeRequest ==
    /\ pc = "bf_loop"
    /\ IF WindowLoopCond(bf)
       THEN /\ req' = [kind |-> "backfill", sym |-> bf.sym,
                       end |-> bf.cur_end, dur |-> WindowDuration(bf)]
            /\ pc' = "bf_wait"
            /\ UNCHANGED <<idx, bf>>
       ELSE /\ idx' = idx + 1
            /\ pc' = "backfill"
            /\ bf' = NoBf
            /\ UNCHANGED req
    /\ UNCHANGED <<clock, feedTs, feedRev, tables, connOpen, cfgActive,
                   tracked, running, symList, ticks, stopPc, firstRow, lastIns>>

\* mutant: the exception of a failed window is not caught and ends run()
FetchRangeFailEscapes ==
    /\ pc = "bf_wait"
    /\ pc' = "crashed"
    /\ bf' = NoBf
    /\ req' = NoReq
    /\ UNCHANGED <<clock, feedTs, feedRev, tables, connOpen, cfgActive, idx,
                   tracked, running, symList, ticks, stopPc, firstRow, lastIns>>

\* reqHistoricalDataAsync raises: the exception leaves _backfill_from_db_tail
\* and run() goes on with the next symbol
FetchRangeFail ==
    /\ pc = "bf_wait"
    /\ idx' = idx + 1
    /\ pc' = "backfill"
    /\ bf' = NoBf
    /\ req' = NoReq
    /\ UNCHANGED <<clock, feedTs, feedRev, tables, connOpen, cfgActive,
                   tracked, running, symList, ticks, stopPc, firstRow, lastIns>>

\* mutant: every bar of the response is kept
WindowRowsUnfiltered(bars, start_dt) ==
    [i \in 1..Len(bars) |-> RowOf(bars[i])]

\* rows kept from the bars of a window: ts >= _to_epoch(start_dt)
WindowRows(bars, start_dt) ==
    SelectSeq([i \in 1..Len(bars) |-> RowOf(bars[i])],
              LAMBDA r : r.ts >= start_dt)

SeqMaxTs(rows) == SetMax({rows[i].ts : i \in 1..Len(rows)})

\* start_dt = cur_end + 1 s; cur_end = start_dt + step, clamped
NextWindow(b) ==
    [b EXCEPT !.start = b.cur_end + 1,
              !.cur_end = WindowEnd(b.cur_end + 1, b.now),
              !.finalDone = @ \/ (b.cur_end = b.now)]

\* the response of a backfill window arrives: filter, insert, advance the
\* cached last_ts, move to the next window
FetchRangeStore ==
    /\ pc = "bf_wait"
    /\ \E early \in BOOLEAN :
         LET bars == Response(req.sym, req.end, req.dur, feedRev, early)
             rows == WindowRows(bars, bf.start)
         IN IF Len(rows) > 0 /\ ~connOpen
            THEN \* executemany on a closed connection raises
                 /\ idx' = idx + 1
                 /\ pc' = "backfill"
                 /\ bf' = NoBf
                 /\ UNCHANGED <<tables, tracked, firstRow, lastIns>>
            ELSE /\ IF Len(rows) > 0
                    THEN /\ tables' = [tables EXCEPT ![bf.sym] =
                                          BulkInsertIgnore(@, rows)]
                         /\ tracked' = AdvanceLastTs(tracked, bf.sym,
                                                     SeqMaxTs(rows))
                         /\ firstRow' = [firstRow EXCEPT ![bf.sym] =
                                          FirstDeliveries(@, rows)]
                         /\ lastIns' = [sym |-> bf.sym, rows |-> rows]
                    ELSE UNCHANGED <<tables, tracked, firstRow, lastIns>>
                 /\ bf' = NextWindow(bf)
                 /\ pc' = "bf_loop"
                 /\ UNCHANGED idx
    /\ req' = NoReq
    /\ UNCHANGED <<clock, feedTs, feedRev, connOpen, cfgActive, running,
                   symList, ticks, stopPc>>

----------------------------------------------------------------------------
(* BarsCollector.run: incremental loop *)

Orderings(S) == {o \in [1..Cardinality(S) -> S] :
                   \A i, j \in 1..Cardinality(S) : o[i] = o[j] => i = j}

\* mutant: an entering symbol starts without last_ts, the store is not read
RefreshNeighborsBlank(trk, desired, tbls, ord) ==
    LET kept == SelectSeq(trk, LAMBDA e : e.sym \in desired)
    IN kept \o [i \in 1..Len(ord) |-> [sym |-> ord[i], last_ts |-> None]]

\* _refresh_neighbors on an open connection: drop the symbols outside the
\* desired set, then add the missing ones (in the iteration order ord of the
\* set) with last_ts read from the database
RefreshNeighbors(trk, desired, tbls, ord) ==
    LET kept == SelectSeq(trk, LAMBDA e : e.sym \in desired)
    IN kept \o [i \in 1..Len(ord) |->
                  [sym |-> ord[i], last_ts |-> GetDbLastTs(tbls[ord[i]])]]

\* one pass of `while self._running`: _refresh_neighbors and the list of
\* symbols to poll; an error of _refresh_neighbors ends run()
LoopIter ==
    /\ pc = "loop"
    /\ running
    /\ ticks < MaxTicks
    /\ LET n == NeighborsQuarter(Upper(cfgActive))
       IN IF ~n.ok
          THEN /\ pc' = "crashed"
               /\ UNCHANGED <<tracked, symList, idx>>
          ELSE LET desired == {n.prev, Upper(cfgActive), n.next}
                   kept == SelectSeq(tracked, LAMBDA e : e.sym \in desired)
                   missing == desired \ KeySet(kept)
               IN IF missing # {} /\ ~connOpen
                  THEN \* _get_db_last_ts on a closed connection raises
                       /\ tracked' = kept
                       /\ pc' = "crashed"
                       /\ UNCHANGED <<symList, idx>>
                  ELSE \E ord \in Orderings(missing) :
                          /\ tracked' = RefreshNeighbors(tracked, desired,
                                                         tables, ord)
                          /\ symList' = Keys(tracked')
                          /\ idx' = 1
                          /\ pc' = "tick"
    /\ UNCHANGED <<clock, feedTs, feedRev, tables, connOpen, cfgActive, running, bf,
                   req, ticks, stopPc, firstRow, lastIns>>

\* `while self._running` finds the flag cleared: run() returns
LoopExit ==
    /\ pc = "loop"
    /\ ~running
    /\ pc' = "done"
    /\ UNCHANGED <<clock, feedTs, feedRev, tables, connOpen, cfgActive, tracked,
                   running, symList, idx, bf, req, ticks, stopPc, firstRow, lastIns>>

\* mutant: the floor of 30 seconds is not applied
IncrementalDurationNoFloor(short_window_seconds) == short_window_seconds

\* duration_sec = max(30, self.cfg.short_window_seconds)
IncrementalDurationOf(short_window_seconds) ==
    Max(MinDuration, short_window_seconds)

\* duration of the trailing window of _incremental_fetch
IncrementalDuration == IncrementalDurationOf(ShortWindowSeconds)

\* mutant: the polls of a tick are started together, the request of the next
\* symbol goes out while the previous one is still awaited
IncrementalRequestEager ==
    /\ pc \in {"tick", "tick_wait"}
    /\ idx + (IF pc = "tick" THEN 0 ELSE 1) <= Len(symList)
    /\ connOpen
    /\ idx' = idx + (IF pc = "tick" THEN 0 ELSE 1)
    /\ tables' = [tables EXCEPT ![symList[idx']] = EnsureTable(@)]
    /\ req' = [kind |-> "incremental", sym |-> symList[idx'],
               end |-> clock, dur |-> IncrementalDuration]
    /\ pc' = "tick_wait"
    /\ UNCHANGED <<clock, feedTs, feedRev, connOpen, cfgActive, tracked, running,
                   symList, bf, ticks, stopPc, firstRow, lastIns>>

\* _incremental_fetch up to its request; an exception (closed connection in
\* _ensure_table) is logged by run() and the next symbol is polled
IncrementalRequest ==
    /\ pc = "tick"
    /\ idx <= Len(symList)
    /\ LET sym == symList[idx]
       IN IF ~connOpen
          THEN /\ idx' = idx + 1
               /\ UNCHANGED <<pc, tables, req>>
          ELSE /\ tables' = [tables EXCEPT ![sym] = EnsureTable(@)]
               /\ req' = [kind |-> "incremental", sym |-> sym,
                          end |-> clock, dur |-> IncrementalDuration]
               /\ pc' = "tick_wait"
               /\ UNCHANGED idx
    /\ UNCHANGED <<clock, feedTs, feedRev, connOpen, cfgActive, tracked, running,
                   symList, bf, ticks, stopPc, firstRow, lastIns>>

\* mutant: the exception of a failed poll is not caught and ends run()
IncrementalFailEscapes ==
    /\ pc = "tick_wait"
    /\ pc' = "crashed"
    /\ req' = NoReq
    /\ UNCHANGED <<clock, feedTs, feedRev, tables, connOpen, cfgActive, idx,
                   tracked, running, symList, bf, ticks, stopPc, firstRow, lastIns>>

\* reqHistoricalDataAsync, or the insert of its bars into an unavailable
\* database, raises inside _incremental_fetch: run() logs it
IncrementalFail ==
    /\ pc = "tick_wait"
    /\ idx' = idx + 1
    /\ pc' = "tick"
    /\ req' = NoReq
    /\ UNCHANGED <<clock, feedTs, feedRev, tables, connOpen, cfgActive,
                   tracked, running, symList, bf, ticks, stopPc, firstRow, lastIns>>

\* rows built from the bars of an incremental response (no filter)
IncrementalRows(bars) == [i \in 1..Len(bars) |-> RowOf(bars[i])]

\* the response of an incremental request arrives
IncrementalStore ==
    /\ pc = "tick_wait"
    /\ \E early \in BOOLEAN :
         LET bars == Response(req.sym, req.end, req.dur, feedRev, early)
             rows == IncrementalRows(bars)
         IN IF Len(rows) > 0 /\ connOpen
            THEN /\ tables' = [tables EXCEPT ![req.sym] =
                                  BulkInsertIgnore(@, rows)]
                 /\ tracked' = AdvanceLastTs(tracked, req.sym, SeqMaxTs(rows))
                 /\ firstRow' = [firstRow EXCEPT ![req.sym] =
                                  FirstDeliveries(@, rows)]
                 /\ lastIns' = [sym |-> req.sym, rows |-> rows]
            ELSE \* empty response, or executemany raises on a closed
                 \* connection and run() logs it
                 UNCHANGED <<tables, tracked, firstRow, lastIns>>
    /\ idx' = idx + 1
    /\ pc' = "tick"
    /\ req' = NoReq
    /\ UNCHANGED <<clock, feedTs, feedRev, connOpen, cfgActive, running,
                   symList, bf, ticks, stopPc>>

\* next_slot of _sleep_to_next_5s
NextSlot(now) == ((now \div Grid) + 1) * Grid

\* all symbols of the tick are done: sleep to the next 5-second slot
SleepToNext5s ==
    /\ pc = "tick"
    /\ idx > Len(symList)
    /\ clock' = NextSlot(clock)
    /\ ticks' = ticks + 1
    /\ pc' = "loop"
    /\ UNCHANGED <<feedTs, feedRev, tables, connOpen, cfgActive, tracked, running,
                   symList, idx, bf, req, stopPc, firstRow, lastIns>>

----------------------------------------------------------------------------
(* BarsCollector.stop and the environment *)

\* stop() up to its await asyncio.sleep(0)
StopCall ==
    /\ stopPc = "idle"
    /\ running' = FALSE
    /\ stopPc' = "yield"
    /\ UNCHANGED <<clock, feedTs, feedRev, tables, connOpen, cfgActive, tracked, pc,
                   symList, idx, bf, req, ticks, firstRow, lastIns>>

\* stop() after the yield: close the connection
StopClose ==
    /\ stopPc = "yield"
    /\ connOpen' = FALSE
    /\ stopPc' = "closed"
    /\ UNCHANGED <<clock, feedTs, feedRev, tables, cfgActive, tracked, running, pc,
                   symList, idx, bf, req, ticks, firstRow, lastIns>>

\* the active contract is changed from outside the class (a new cfg); cfg is
\* read only by _refresh_neighbors at the head of the loop, so a change made
\* at any earlier moment is the same as one made here
ChangeActive ==
    /\ pc = "loop"
    /\ \E a \in ActiveSymbols \ {cfgActive} : cfgActive' = a
    /\ UNCHANGED <<clock, feedTs, feedRev, tables, connOpen, tracked, running, pc,
                   symList, idx, bf, req, ticks, stopPc, firstRow, lastIns>>

\* the feed revises the bars it holds (late finalisation); seen by run()
\* only through the response it is waiting for
FeedRevises ==
    /\ pc \in {"bf_wait", "tick_wait"}
    /\ feedRev < LastRevision
    /\ feedRev' = feedRev + 1
    /\ UNCHANGED <<clock, feedTs, tables, connOpen, cfgActive, tracked,
                   running, pc, symList, idx, bf, req, ticks, stopPc,
                   firstRow, lastIns>>

\* wall-clock time passes while run() waits for the feed
TimePasses ==
    /\ pc \in {"bf_wait", "tick_wait"}
    /\ clock < SetMax(StartTimes) + MaxElapsed
    /\ clock' = clock + 1
    /\ UNCHANGED <<feedTs, feedRev, tables, connOpen, cfgActive, tracked, running, pc,
                   symList, idx, bf, req, ticks, stopPc, firstRow, lastIns>>

NextBars ==
    \/ Run /\ UNCHANGED nonBarsVars
    \/ BackfillSymbol /\ UNCHANGED nonBarsVars
    \/ BackfillDone /\ UNCHANGED nonBarsVars
    \/ FetchRangeRequest /\ UNCHANGED nonBarsVars
    \/ FetchRangeFail /\ UNCHANGED nonBarsVars
    \/ FetchRangeStore /\ UNCHANGED nonBarsVars
    \/ LoopIter /\ UNCHANGED nonBarsVars
    \/ LoopExit /\ UNCHANGED nonBarsVars
    \/ IncrementalRequest /\ UNCHANGED nonBarsVars
    \/ IncrementalFail /\ UNCHANGED nonBarsVars
    \/ IncrementalStore /\ UNCHANGED nonBarsVars
    \/ SleepToNext5s /\ UNCHANGED nonBarsVars
    \/ StopCall /\ UNCHANGED nonBarsVars
    \/ StopClose /\ UNCHANGED nonBarsVars
    \/ ChangeActive /\ UNCHANGED nonBarsVars
    \/ FeedRevises /\ UNCHANGED nonBarsVars
    \/ TimePasses /\ UNCHANGED nonBarsVars

----------------------------------------------------------------------------
(* The store operations on their own: any batch into any table *)

StoreSyms == {Roster(InitialActive)[1], Roster(InitialActive)[2]}

\* batches tried: up to TestBatchLen rows over two timestamps, each
\* timestamp with two rows that differ in every value column
TestBatchLen == 2

TestRows == {RowOf(FeedBar(t, v)) :
                t \in {SetMin(StartTimes) - 7, SetMin(StartTimes) + 5},
                v \in {1, 2}}

TestBatches == UNION {[1..n -> TestRows] : n \in 0..TestBatchLen}

\* _ensure_table(symbol)
EnsureSchemaOp(sym) ==
    /\ tables' = [tables EXCEPT ![sym] = EnsureTable(@)]
    /\ UNCHANGED <<firstRow, lastIns>>

\* _bulk_insert_ignore(symbol, rows) on the table of the symbol
InsertBatchOp(sym, rows) ==
    /\ tables[sym].exists
    /\ tables' = [tables EXCEPT ![sym] = BulkInsertIgnore(@, rows)]
    /\ firstRow' = [firstRow EXCEPT ![sym] = FirstDeliveries(@, rows)]
    /\ lastIns' = [sym |-> sym, rows |-> rows]

\* what the store operations leave alone
StoreFrame ==
    /\ UNCHANGED <<clock, feedTs, feedRev, connOpen, cfgActive, tracked,
                   running, pc, symList, idx, bf, req, ticks, stopPc>>
    /\ UNCHANGED nonBarsVars

NextStore ==
    \/ \E sym \in StoreSyms : EnsureSchemaOp(sym) /\ StoreFrame
    \/ \E sym \in StoreSyms : \E rows \in TestBatches :
          InsertBatchOp(sym, rows) /\ StoreFrame

----------------------------------------------------------------------------
(* robot.py: PortfolioWatcher *)

ConIds == {1, 2}            \* contract ids of the instruments
MaxQty == 5                 \* positions range over -MaxQty..MaxQty contracts
MaxEvents == 2              \* events logged in one run

\* a float quantity is an integer number of units of 5e-9 contracts
Lot == 200000000            \* one contract
Epsilon == 2                \* the threshold 1e-8 of _is_zero
Residue == 1                \* a rounding residue of 5e-9, below the threshold

Qtys == {q * Lot : q \in (-MaxQty)..MaxQty} \cup {-Residue, Residue}

\* PortfolioWatcher._side
Side(qty) == IF qty > 0 THEN "LONG" ELSE "SHORT"

\* self._baseline.get(con_id, 0.0)
BaselineGet(bl, con_id) == IF con_id \in DOMAIN bl THEN bl[con_id] ELSE 0

\* self._baseline[con_id] = new_qty
BaselineSet(bl, con_id, new_qty) ==
    [c \in DOMAIN bl \cup {con_id} |-> IF c = con_id THEN new_qty ELSE bl[c]]

Reversed(con_id, prev_qty, new_qty) ==
    [kind |-> "Reversed", con |-> con_id, prev_side |-> Side(prev_qty),
     new_side |-> Side(new_qty), prev |-> prev_qty, new |-> new_qty]

Opened(con_id, new_qty) ==
    [kind |-> "Opened", con |-> con_id, side |-> Side(new_qty),
     new |-> new_qty]

Closed(con_id, prev_qty) ==
    [kind |-> "Closed", con |-> con_id, side |-> Side(prev_qty)]

\* the message shows the change as "+" and abs(delta)
Added(con_id, prev_qty, new_qty) ==
    [kind |-> "Added", con |-> con_id, side |-> Side(new_qty),
     prev |-> prev_qty, new |-> new_qty, delta |-> Abs(new_qty - prev_qty)]

\* the message shows the change as "-" and abs(delta)
Reduced(con_id, prev_qty, new_qty) ==
    [kind |-> "Reduced", con |-> con_id, side |-> Side(new_qty),
     prev |-> prev_qty, new |-> new_qty, delta |-> -Abs(new_qty - prev_qty)]

\* the if/elif chain after the reversal branch of _on_update_portfolio
ClassifyChain(con_id, prev_qty, new_qty) ==
    IF prev_qty = 0 /\ new_qty # 0
    THEN <<Opened(con_id, new_qty)>>
    ELSE IF prev_qty # 0 /\ new_qty = 0
    THEN <<Closed(con_id, prev_qty)>>
    ELSE IF prev_qty # 0 /\ new_qty # 0 /\ (prev_qty > 0) = (new_qty > 0)
    THEN IF Abs(new_qty) > Abs(prev_qty)
         THEN <<Added(con_id, prev_qty, new_qty)>>
         ELSE IF Abs(new_qty) < Abs(prev_qty)
              THEN <<Reduced(con_id, prev_qty, new_qty)>>
              ELSE << >>
    ELSE << >>

\* mutant: the baseline is written on first sight only
OnUpdateStaleBaseline(bl, con_id, new_qty) ==
    LET prev_qty == BaselineGet(bl, con_id)
    IN IF con_id \notin DOMAIN bl
       THEN [baseline |-> BaselineSet(bl, con_id, new_qty), emitted |-> << >>]
       ELSE IF prev_qty # 0 /\ new_qty # 0 /\ (prev_qty > 0) # (new_qty > 0)
       THEN [baseline |-> bl,
             emitted |-> <<Reversed(con_id, prev_qty, new_qty)>>]
       ELSE [baseline |-> bl,
             emitted |-> ClassifyChain(con_id, prev_qty, new_qty)]

\* mutant: no first-sight branch, an unseen instrument is classified
\* against the default 0
OnUpdateNoFirstSight(bl, con_id, new_qty) ==
    LET prev_qty == BaselineGet(bl, con_id)
    IN [baseline |-> BaselineSet(bl, con_id, new_qty),
        emitted |->
           IF prev_qty # 0 /\ new_qty # 0 /\ (prev_qty > 0) # (new_qty > 0)
           THEN <<Reversed(con_id, prev_qty, new_qty)>>
           ELSE ClassifyChain(con_id, prev_qty, new_qty)]

\* mutant: no reversal branch, a flip through zero falls through the chain
OnUpdateNoReversal(bl, con_id, new_qty) ==
    LET prev_qty == BaselineGet(bl, con_id)
    IN [baseline |-> BaselineSet(bl, con_id, new_qty),
        emitted |-> IF con_id \notin DOMAIN bl THEN << >>
                    ELSE ClassifyChain(con_id, prev_qty, new_qty)]

\* _on_update_portfolio for an item with a conId: the new baseline and the
\* events logged (and sent when TELEGRAM.enabled_logs)
OnUpdatePortfolio(bl, con_id, new_qty) ==
    LET prev_qty == BaselineGet(bl, con_id)
    IN IF con_id \notin DOMAIN bl
       THEN [baseline |-> BaselineSet(bl, con_id, new_qty), emitted |-> << >>]
       ELSE IF prev_qty # 0 /\ new_qty # 0 /\ (prev_qty > 0) # (new_qty > 0)
       THEN [baseline |-> BaselineSet(bl, con_id, new_qty),
             emitted |-> <<Reversed(con_id, prev_qty, new_qty)>>]
       ELSE [baseline |-> BaselineSet(bl, con_id, new_qty),
             emitted |-> ClassifyChain(con_id, prev_qty, new_qty)]

NoUpd == [con |-> None, seen |-> FALSE, prev |-> 0, new |-> 0,
          emitted |-> << >>]

\* partial snapshots ib.portfolio() may return
Snapshots == UNION {[D -> Qtys] : D \in SUBSET ConIds}

\* PortfolioWatcher.start when ib.portfolio() returns snap: silent
\* snapshot, then subscribe
WatcherStartFrom(snap) ==
    /\ ~attached
    /\ baseline' = [c \in DOMAIN baseline \cup DOMAIN snap |->
                       IF c \in DOMAIN snap THEN snap[c] ELSE baseline[c]]
    /\ attached' = TRUE
    /\ lastUpd' = NoUpd
    /\ UNCHANGED events

WatcherStart == \E snap \in Snapshots : WatcherStartFrom(snap) /\ UNCHANGED seqVars

\* PortfolioWatcher.stop: unsubscribe
WatcherStop ==
    /\ attached
    /\ attached' = FALSE
    /\ lastUpd' = NoUpd
    /\ UNCHANGED <<baseline, events>>
    /\ UNCHANGED seqVars

\* updatePortfolioEvent delivers an item to the subscribed handler
UpdatePortfolio ==
    /\ attached
    /\ events < MaxEvents
    /\ \E con_id \in ConIds, new_qty \in Qtys :
          LET r == OnUpdatePortfolio(baseline, con_id, new_qty)
          IN /\ baseline' = r.baseline
             /\ events' = events + Len(r.emitted)
             /\ lastUpd' = [con |-> Some(con_id),
                            seen |-> con_id \in DOMAIN baseline,
                            prev |-> BaselineGet(baseline, con_id),
                            new |-> new_qty,
                            emitted |-> r.emitted]
    /\ UNCHANGED attached
    /\ UNCHANGED seqVars

\* an item whose contract has no conId is ignored by the handler
UpdateWithoutConId ==
    /\ attached
    /\ \E new_qty \in Qtys : lastUpd' = [NoUpd EXCEPT !.new = new_qty]
    /\ UNCHANGED <<baseline, attached, events>>
    /\ UNCHANGED seqVars

NextPW ==
    \/ WatcherStart /\ UNCHANGED nonPwVars
    \/ WatcherStop /\ UNCHANGED nonPwVars
    \/ UpdatePortfolio /\ UNCHANGED nonPwVars
    \/ UpdateWithoutConId /\ UNCHANGED nonPwVars

InitPW ==
    /\ baseline = << >>
    /\ attached = FALSE
    /\ events = 0
    /\ lastUpd = NoUpd
    /\ trace = << >>
    /\ evlog = << >>

----------------------------------------------------------------------------
(* robot.py: the updates of one instrument, in the order they arrive *)

SeqCon == 1                 \* the instrument followed
MaxSeqLen == 3              \* updates delivered for it

\* start() over an empty ib.portfolio()
SeqStart == WatcherStartFrom(<< >>) /\ UNCHANGED seqVars

\* updatePortfolioEvent delivers the next item of the instrument
SeqUpdate ==
    /\ attached
    /\ Len(trace) < MaxSeqLen
    /\ \E new_qty \in Qtys :
          LET r == OnUpdatePortfolio(baseline, SeqCon, new_qty)
          IN /\ baseline' = r.baseline
             /\ events' = events + Len(r.emitted)
             /\ lastUpd' = [con |-> Some(SeqCon),
                            seen |-> SeqCon \in DOMAIN baseline,
                            prev |-> BaselineGet(baseline, SeqCon),
                            new |-> new_qty,
                            emitted |-> r.emitted]
             /\ trace' = Append(trace, new_qty)
             /\ evlog' = evlog \o r.emitted
    /\ UNCHANGED attached

NextSeq ==
    \/ SeqStart /\ UNCHANGED nonPwVars
    \/ SeqUpdate /\ UNCHANGED nonPwVars

----------------------------------------------------------------------------
(* core/portfolio_watch.py: PortfolioWatcher *)

\* quantities the broker may hold for an instrument
CwQtys == {-Lot, 0, Residue, Lot}

MaxCwTasks == 1             \* _on_connected_async tasks in flight at once

\* PortfolioWatcher._is_zero
IsZero(x) == Abs(x) < Epsilon

\* self._pos.get(cid, _PosState()).qty
PosGet(p, cid) == IF cid \in DOMAIN p THEN p[cid] ELSE 0

\* self._pos[cid] = _PosState(qty=now)
PosSet(p, cid, now) ==
    [c \in DOMAIN p \cup {cid} |-> IF c = cid THEN now ELSE p[c]]

CwOpened(cid, now) ==
    [kind |-> "Opened", con |-> cid,
     side |-> IF now > 0 THEN "LONG" ELSE "SHORT", qty |-> now]

CwClosed(cid, prev) ==
    [kind |-> "Closed", con |-> cid,
     side |-> IF prev > 0 THEN "LONG" ELSE "SHORT", qty |-> prev]

\* mutant: the baseline is written only when an event is sent
OnUpdateAsyncLazy(p, cid, now) ==
    LET prev == PosGet(p, cid)
        opened == IsZero(prev) /\ ~IsZero(now)
        closed == ~IsZero(prev) /\ IsZero(now)
    IN [pos |-> IF opened \/ closed THEN PosSet(p, cid, now) ELSE p,
        emitted |-> IF opened THEN <<CwOpened(cid, now)>>
                    ELSE IF closed THEN <<CwClosed(cid, prev)>>
                    ELSE << >>]

\* _on_update_portfolio_async up to its first await: the new _pos and the
\* message sent
OnUpdateAsync(p, cid, now) ==
    LET prev == PosGet(p, cid)
        opened == IsZero(prev) /\ ~IsZero(now)
        closed == ~IsZero(prev) /\ IsZero(now)
    IN [pos |-> PosSet(p, cid, now),
        emitted |-> IF opened THEN <<CwOpened(cid, now)>>
                    ELSE IF closed THEN <<CwClosed(cid, prev)>>
                    ELSE << >>]

\* _snapshot_positions after reqPositionsAsync returned the open positions:
\* clear, then one entry per position
SnapshotPositions(h) == [c \in {d \in DOMAIN h : h[d] # 0} |-> h[c]]

NoCwUpd == [con |-> None, prev |-> 0, now |-> 0, emitted |-> << >>,
            live |-> FALSE, settled |-> FALSE]

\* start(): attach the handlers once; when connected, _on_connected_async
\* (which clears _subscribed and waits for the position snapshot)
CwStart ==
    /\ cwPc = "new"
    /\ handlers_attached' = TRUE
    /\ IF ibConnected
       THEN cwPc' = "init_snapshot" /\ subscribed' = FALSE
       ELSE cwPc' = "loop" /\ UNCHANGED subscribed
    /\ cwLast' = NoCwUpd
    /\ UNCHANGED <<pos, watcherStop, snapTasks, subTasks, held, moved,
                   ibConnected>>

\* reqPositionsAsync returns inside start()
CwInitSnapshotOk ==
    /\ cwPc = "init_snapshot"
    /\ ibConnected
    /\ pos' = SnapshotPositions(held)
    /\ cwPc' = "init_subscribe"
    /\ cwLast' = NoCwUpd
    /\ UNCHANGED <<subscribed, handlers_attached, watcherStop, snapTasks,
                   subTasks, held, moved, ibConnected>>

\* reqPositionsAsync raises inside start(): warning, _pos is left as it was
CwInitSnapshotFail ==
    /\ cwPc = "init_snapshot"
    /\ cwPc' = "init_subscribe"
    /\ cwLast' = NoCwUpd
    /\ UNCHANGED <<pos, subscribed, handlers_attached, watcherStop, snapTasks,
                   subTasks, held, moved, ibConnected>>

\* _ensure_subscribed: reqAccountUpdates returns (subscribed) or raises
\* (logged, _subscribed unchanged); it cannot return without a connection
EnsureSubscribed(ok) == IF ok THEN TRUE ELSE subscribed

CwInitSubscribe ==
    /\ cwPc = "init_subscribe"
    /\ \E ok \in {b \in BOOLEAN : b => ibConnected} :
          subscribed' = EnsureSubscribed(ok)
    /\ cwPc' = "loop"
    /\ cwLast' = NoCwUpd
    /\ UNCHANGED <<pos, handlers_attached, watcherStop, snapTasks, subTasks,
                   held, moved, ibConnected>>

\* the loop of start(): connected and not subscribed, _ensure_subscribed
CwLoopIter ==
    /\ cwPc = "loop"
    /\ ~watcherStop
    /\ ibConnected /\ ~subscribed
    /\ cwPc' = "loop_subscribe"
    /\ cwLast' = NoCwUpd
    /\ UNCHANGED <<pos, subscribed, handlers_attached, watcherStop, snapTasks,
                   subTasks, held, moved, ibConnected>>

CwLoopSubscribe ==
    /\ cwPc = "loop_subscribe"
    /\ \E ok \in {b \in BOOLEAN : b => ibConnected} :
          subscribed' = EnsureSubscribed(ok)
    /\ cwPc' = "loop"
    /\ cwLast' = NoCwUpd
    /\ UNCHANGED <<pos, handlers_attached, watcherStop, snapTasks, subTasks,
                   held, moved, ibConnected>>

\* while not self._stop.is_set() sees the stop
CwLoopExit ==
    /\ cwPc = "loop"
    /\ watcherStop
    /\ cwPc' = "done"
    /\ cwLast' = NoCwUpd
    /\ UNCHANGED <<pos, subscribed, handlers_attached, watcherStop, snapTasks,
                   subTasks, held, moved, ibConnected>>

\* stop()
CwStop ==
    /\ ~watcherStop
    /\ watcherStop' = TRUE
    /\ cwLast' = NoCwUpd
    /\ UNCHANGED <<pos, subscribed, handlers_attached, cwPc, snapTasks,
                   subTasks, held, moved, ibConnected>>

\* the connection comes up: connectedEvent runs _handle_connected, whose
\* task clears _subscribed and waits for the position snapshot
IbConnects ==
    /\ ~ibConnected
    /\ snapTasks + subTasks < MaxCwTasks
    /\ ibConnected' = TRUE
    /\ moved' = [c \in ConIds |-> FALSE]
    /\ IF handlers_attached
       THEN snapTasks' = snapTasks + 1 /\ subscribed' = FALSE
       ELSE UNCHANGED <<snapTasks, subscribed>>
    /\ cwLast' = NoCwUpd
    /\ UNCHANGED <<pos, handlers_attached, watcherStop, cwPc, subTasks, held>>

\* the connection drops: disconnectedEvent runs _handle_disconnected
IbDrops ==
    /\ ibConnected
    /\ ibConnected' = FALSE
    /\ moved' = [c \in ConIds |-> FALSE]
    /\ subscribed' = IF handlers_attached THEN FALSE ELSE subscribed
    /\ cwLast' = NoCwUpd
    /\ UNCHANGED <<pos, handlers_attached, watcherStop, cwPc, snapTasks,
                   subTasks, held>>

\* reqPositionsAsync returns in a task of _handle_connected
CwSnapshotOk ==
    /\ snapTasks > 0
    /\ ibConnected
    /\ pos' = SnapshotPositions(held)
    /\ snapTasks' = snapTasks - 1
    /\ subTasks' = subTasks + 1
    /\ cwLast' = NoCwUpd
    /\ UNCHANGED <<subscribed, handlers_attached, watcherStop, cwPc, held,
                   moved, ibConnected>>

\* reqPositionsAsync raises in a task of _handle_connected
CwSnapshotFail ==
    /\ snapTasks > 0
    /\ snapTasks' = snapTasks - 1
    /\ subTasks' = subTasks + 1
    /\ cwLast' = NoCwUpd
    /\ UNCHANGED <<pos, subscribed, handlers_attached, watcherStop, cwPc,
                   held, moved, ibConnected>>

\* _ensure_subscribed ends in a task of _handle_connected
CwTaskSubscribe ==
    /\ subTasks > 0
    /\ \E ok \in {b \in BOOLEAN : b => ibConnected} :
          subscribed' = EnsureSubscribed(ok)
    /\ subTasks' = subTasks - 1
    /\ cwLast' = NoCwUpd
    /\ UNCHANGED <<pos, handlers_attached, watcherStop, cwPc, snapTasks, held,
                   moved, ibConnected>>

\* a fill at the broker changes the position of an instrument, whether or
\* not this client is connected
BrokerTrade ==
    /\ \E c \in ConIds, q \in CwQtys :
          /\ q # held[c]
          /\ held' = [held EXCEPT ![c] = q]
          /\ moved' = [moved EXCEPT ![c] = @ \/ ibConnected]
    /\ cwLast' = NoCwUpd
    /\ UNCHANGED <<pos, subscribed, handlers_attached, watcherStop, cwPc,
                   snapTasks, subTasks, ibConnected>>

\* updatePortfolioEvent delivers the item of an instrument with its current
\* position: _handle_update_portfolio, _on_update_portfolio_async
CwUpdate ==
    /\ handlers_attached
    /\ ibConnected
    /\ \E cid \in ConIds :
          LET r == OnUpdateAsync(pos, cid, held[cid])
          IN /\ pos' = r.pos
             /\ cwLast' = [con |-> Some(cid), prev |-> PosGet(pos, cid),
                           now |-> held[cid], emitted |-> r.emitted,
                           live |-> moved[cid],
                           settled |-> snapTasks = 0 /\ cwPc # "init_snapshot"]
    /\ UNCHANGED <<subscribed, handlers_attached, watcherStop, cwPc, snapTasks,
                   subTasks, held, moved, ibConnected>>

NextCW ==
    \/ CwStart /\ UNCHANGED nonCwVars
    \/ CwInitSnapshotOk /\ UNCHANGED nonCwVars
    \/ CwInitSnapshotFail /\ UNCHANGED nonCwVars
    \/ CwInitSubscribe /\ UNCHANGED nonCwVars
    \/ CwLoopIter /\ UNCHANGED nonCwVars
    \/ CwLoopSubscribe /\ UNCHANGED nonCwVars
    \/ CwLoopExit /\ UNCHANGED nonCwVars
    \/ CwStop /\ UNCHANGED nonCwVars
    \/ IbConnects /\ UNCHANGED nonCwVars
    \/ IbDrops /\ UNCHANGED nonCwVars
    \/ CwSnapshotOk /\ UNCHANGED nonCwVars
    \/ CwSnapshotFail /\ UNCHANGED nonCwVars
    \/ CwTaskSubscribe /\ UNCHANGED nonCwVars
    \/ BrokerTrade /\ UNCHANGED nonCwVars
    \/ CwUpdate /\ UNCHANGED nonCwVars

\* a watcher constructed over a client that is not connected yet
InitCW ==
    /\ pos = << >>
    /\ subscribed = FALSE
    /\ handlers_attached = FALSE
    /\ watcherStop = FALSE
    /\ cwPc = "new"
    /\ snapTasks = 0
    /\ subTasks = 0
    /\ held = [c \in ConIds |-> 0]
    /\ moved = [c \in ConIds |-> FALSE]
    /\ cwLast = NoCwUpd
    /\ ibConnected = FALSE

----------------------------------------------------------------------------
(* IBConnectionService of core/ib_connection.py.  Delays are counted in
   half seconds.  The service owns its IB instance; nothing else connects or
   disconnects it. *)

BaseRetryDelay == 3         \* IBConfig.base_retry_delay = 1.5 s
MaxRetryDelay == 60         \* IBConfig.max_retry_delay = 30.0 s
HealthCheckPeriod == 4      \* IBConfig.health_check_period = 2.0 s
MaxFailures == 7            \* consecutive failed connect attempts explored

\* max(0.5, float(cfg.health_check_period))
Period == Max(1, HealthCheckPeriod)

\* a backoff that doubles without the cap
BackoffNextUncapped(current) == current * 2

\* _Backoff.next of a record with the given current and max_
BackoffNextOf(current, max_) == Min(current * 2, max_)

\* _Backoff.next
BackoffNext(current) == BackoffNextOf(current, MaxRetryDelay)

\* a connect that leaves the backoff where the failures took it
BackoffKept(current) == current

\* the _Backoff built after a successful connect: current = base_retry_delay
BackoffAfterConnect(current) == BaseRetryDelay

\* connect_initial: _connect_once succeeded
ConnectInitialOk ==
    /\ monPc = "new"
    /\ svcConnected' = TRUE
    /\ backoff' = BackoffAfterConnect(backoff)
    /\ monPc' = "connected_initial"
    /\ UNCHANGED <<stop_event, waits, prevFails>>

\* connect_initial: _connect_once raised, the exception reaches the caller
ConnectInitialFail ==
    /\ monPc = "new"
    /\ monPc' = "failed_initial"
    /\ UNCHANGED <<svcConnected, backoff, stop_event, waits, prevFails>>

\* monitor_forever is entered
MonitorStart ==
    /\ monPc \in {"connected_initial", "failed_initial"}
    /\ monPc' = "top"
    /\ UNCHANGED <<svcConnected, backoff, stop_event, waits, prevFails>>

\* while not stop_event.is_set(): if not connected, delay = backoff.current
\* and sleep(delay); else sleep(period)
MonTop ==
    /\ monPc = "top"
    /\ IF stop_event
       THEN monPc' = "done" /\ UNCHANGED waits
       ELSE IF ~svcConnected
            THEN monPc' = "sleep_delay" /\ waits' = Append(waits, backoff)
            ELSE monPc' = "sleep_period" /\ UNCHANGED waits
    /\ UNCHANGED <<svcConnected, backoff, stop_event, prevFails>>

\* sleep(delay) is over: _connect_once is awaited
MonDelayElapsed ==
    /\ monPc = "sleep_delay"
    /\ monPc' = "connecting"
    /\ UNCHANGED <<svcConnected, backoff, stop_event, waits, prevFails>>

\* _connect_once returned: the backoff is rebuilt
MonConnectOk ==
    /\ monPc = "connecting"
    /\ svcConnected' = TRUE
    /\ backoff' = BackoffAfterConnect(backoff)
    /\ prevFails' = Len(waits) - 1
    /\ waits' = << >>
    /\ monPc' = "top"
    /\ UNCHANGED stop_event

\* _connect_once raised: current = backoff.next()
MonConnectFail ==
    /\ monPc = "connecting"
    /\ Len(waits) <= MaxFailures
    /\ backoff' = BackoffNext(backoff)
    /\ monPc' = "top"
    /\ UNCHANGED <<svcConnected, stop_event, waits, prevFails>>

\* sleep(period) is over
MonPeriodElapsed ==
    /\ monPc = "sleep_period"
    /\ monPc' = "top"
    /\ UNCHANGED <<svcConnected, backoff, stop_event, waits, prevFails>>

\* a statement of the try block raises an Exception other than
\* CancelledError before any sleep: it is logged and sleep(backoff.current)
\* is awaited, the backoff record is not rebuilt
MonUnexpected ==
    /\ monPc = "top"
    /\ ~stop_event
    /\ monPc' = "sleep_error"
    /\ UNCHANGED <<svcConnected, backoff, stop_event, waits, prevFails>>

\* an unexpected-error branch that takes the error for a failed attempt
MonErrorSleepElapsedDoubling ==
    /\ monPc = "sleep_error"
    /\ backoff' = backoff * 2
    /\ monPc' = "top"
    /\ UNCHANGED <<svcConnected, stop_event, waits, prevFails>>

\* the sleep of the unexpected-error branch is over: next iteration
MonErrorSleepElapsed ==
    /\ monPc = "sleep_error"
    /\ monPc' = "top"
    /\ UNCHANGED <<svcConnected, backoff, stop_event, waits, prevFails>>

\* the task is cancelled while it awaits: except CancelledError: break; a
\* cancellation during the sleep of the except branch leaves the coroutine
\* as an exception
MonCancelled ==
    /\ monPc \in {"sleep_delay", "connecting", "sleep_period", "sleep_error"}
    /\ monPc' = "done"
    /\ UNCHANGED <<svcConnected, backoff, stop_event, waits, prevFails>>

\* the owner sets the stop event
SetStopEvent ==
    /\ ~stop_event
    /\ stop_event' = TRUE
    /\ UNCHANGED <<svcConnected, backoff, monPc, waits, prevFails>>

\* the connection is lost, or disconnect() closes it
SvcDisconnected ==
    /\ svcConnected
    /\ svcConnected' = FALSE
    /\ UNCHANGED <<backoff, monPc, stop_event, waits, prevFails>>

NextMon ==
    \/ ConnectInitialOk /\ UNCHANGED nonMonVars
    \/ ConnectInitialFail /\ UNCHANGED nonMonVars
    \/ MonitorStart /\ UNCHANGED nonMonVars
    \/ MonTop /\ UNCHANGED nonMonVars
    \/ MonDelayElapsed /\ UNCHANGED nonMonVars
    \/ MonConnectOk /\ UNCHANGED nonMonVars
    \/ MonConnectFail /\ UNCHANGED nonMonVars
    \/ MonPeriodElapsed /\ UNCHANGED nonMonVars
    \/ MonUnexpected /\ UNCHANGED nonMonVars
    \/ MonErrorSleepElapsed /\ UNCHANGED nonMonVars
    \/ MonCancelled /\ UNCHANGED nonMonVars
    \/ SetStopEvent /\ UNCHANGED nonMonVars
    \/ SvcDisconnected /\ UNCHANGED nonMonVars

InitMon ==
    /\ svcConnected = FALSE
    /\ backoff = BaseRetryDelay
    /\ monPc = "new"
    /\ stop_event = FALSE
    /\ waits = << >>
    /\ prevFails = 0

----------------------------------------------------------------------------
(* core/telegram.py: TelegramClient.  A text is a sequence of characters;
   the chunk limit _MAX_LEN is scaled down to ChunkLimit *)

ChunkLimit == 2             \* characters per chunk
MaxTextLen == 4             \* characters of a text

Chars == {"a", "\n"}
Texts == UNION {[1..n -> Chars] : n \in 0..MaxTextLen}

\* values passed as `to`
Destinations == {"logs", "trade", "other"}

\* TELEGRAM.enabled_logs / enabled_trade
TgConfigs == [enabled_logs : BOOLEAN, enabled_trade : BOOLEAN]

\* how urlopen ends for one chunk
PostOutcomes == {"ok", "http_error", "error"}

\* text.rfind("\n", i, j): the highest 0-based index in [i, j), or -1
RFindIn(text, ch, i, j) ==
    LET S == {k \in i..(j - 1) : text[k + 1] = ch}
    IN IF S = {} THEN -1 ELSE SetMax(S)

\* the while loop of _chunk from the 0-based position i
RECURSIVE ChunkFrom(_, _, _)
ChunkFrom(text, i, limit) ==
    IF i >= Len(text) THEN << >>
    ELSE LET j == Min(Len(text), i + limit)
             nl == RFindIn(text, "\n", i, j)
         IN IF nl > i
            THEN <<SubSeq(text, i + 1, nl)>> \o ChunkFrom(text, nl + 1, limit)
            ELSE <<SubSeq(text, i + 1, j)>> \o ChunkFrom(text, j, limit)

\* TelegramClient._chunk
Chunk(text, limit) ==
    IF Len(text) <= limit THEN <<text>> ELSE ChunkFrom(text, 0, limit)

\* TelegramClient._resolve_destination: (chat_id, enabled), or ValueError
ResolveDestination(to, cfg) ==
    IF to = "logs"
    THEN [raised |-> FALSE, chat |-> "logs", enabled |-> cfg.enabled_logs]
    ELSE IF to = "trade"
    THEN [raised |-> FALSE, chat |-> "trade", enabled |-> cfg.enabled_trade]
    ELSE [raised |-> TRUE, chat |-> "", enabled |-> FALSE]

\* TelegramClient._post_send_message: True when urlopen succeeded; HTTPError
\* and every other Exception are logged and give False
PostSendMessage(outcome) == outcome = "ok"

\* TelegramClient.send_text_sync; outs[k] is how the post of chunk k ends
SendTextSync(text, to, cfg, outs) ==
    LET d == ResolveDestination(to, cfg)
        chunks == Chunk(text, ChunkLimit)
    IN IF d.raised
       THEN [raised |-> TRUE, ret |-> FALSE, posted |-> << >>]
       ELSE IF ~d.enabled
       THEN [raised |-> FALSE, ret |-> FALSE, posted |-> << >>]
       ELSE [raised |-> FALSE,
             ret |-> \A k \in 1..Len(chunks) : PostSendMessage(outs[k]),
             posted |-> chunks]

NoCall == [via |-> "none"]

\* send_text_sync is called
TgSendTextSync ==
    /\ tgCall = NoCall
    /\ \E text \in Texts, to \in Destinations, cfg \in TgConfigs :
          \E outs \in [1..Len(Chunk(text, ChunkLimit)) -> PostOutcomes] :
             /\ tgCall' = [via |-> "sync", text |-> text, to |-> to,
                           cfg |-> cfg, outs |-> outs]
             /\ tgResult' = SendTextSync(text, to, cfg, outs)

\* send_text is awaited: send_text_sync in a worker thread, its result or
\* exception handed back
TgSendText ==
    /\ tgCall = NoCall
    /\ \E text \in Texts, to \in Destinations, cfg \in TgConfigs :
          \E outs \in [1..Len(Chunk(text, ChunkLimit)) -> PostOutcomes] :
             /\ tgCall' = [via |-> "async", text |-> text, to |-> to,
                           cfg |-> cfg, outs |-> outs]
             /\ tgResult' = SendTextSync(text, to, cfg, outs)

NextTg ==
    \/ TgSendTextSync /\ UNCHANGED nonTgVars
    \/ TgSendText /\ UNCHANGED nonTgVars

InitTg ==
    /\ tgCall = NoCall
    /\ tgResult = [raised |-> FALSE, ret |-> FALSE, posted |-> << >>]

----------------------------------------------------------------------------
(* The position watchers with their notification capability: tg.send_text
   delivers, returns False (core/telegram.py on a failed post) or raises
   (infra/telegram.py on a failed post, or a call with the wrong
   arguments) *)

NotifyModes == {"delivers", "returns_false", "raises"}

\* TELEGRAM.enabled_logs
EnabledLogs == TRUE

\* mutant: the handler awaits send_text itself, before the baseline is written
RobotHandleAwaiting(bl, con_id, new_qty, mode) ==
    LET r == OnUpdatePortfolio(bl, con_id, new_qty)
    IN IF EnabledLogs /\ r.emitted # << >> /\ mode = "raises"
       THEN [baseline |-> bl, emitted |-> r.emitted, spawned |-> 0,
             raised |-> TRUE]
       ELSE [baseline |-> r.baseline, emitted |-> r.emitted, spawned |-> 0,
             raised |-> FALSE]

\* robot.py _on_update_portfolio with its notification: every event is
\* logged and, when enabled, asyncio.create_task(self.tg.send_text(...))
\* starts a task; the handler goes on to write the baseline
RobotHandle(bl, con_id, new_qty, mode) ==
    LET r == OnUpdatePortfolio(bl, con_id, new_qty)
    IN [baseline |-> r.baseline, emitted |-> r.emitted,
        spawned |-> IF EnabledLogs THEN Len(r.emitted) ELSE 0,
        raised |-> FALSE]

\* core PortfolioWatcher._send: try: await self.tg.send_text(...), except
\* Exception: warning
CoreSend(mode) == [delivered |-> EnabledLogs /\ mode = "delivers",
                   raised |-> FALSE]

\* core _on_update_portfolio_async with its notification: _pos is written
\* before the message is sent
CoreHandle(p, cid, now, mode) ==
    LET r == OnUpdateAsync(p, cid, now)
        s == CoreSend(mode)
    IN [pos |-> r.pos, emitted |-> r.emitted,
        undelivered |-> r.emitted # << >> /\ ~s.delivered,
        raised |-> r.emitted # << >> /\ s.raised]

\* quantities delivered to robot.py's handler: flat, short, long, longer
NfQtys == {-Lot, 0, Lot, 2 * Lot}

\* updatePortfolioEvent delivers an item to robot.py's handler
NfRobotUpdate ==
    /\ attached
    /\ events < MaxEvents
    /\ \E con_id \in ConIds, new_qty \in NfQtys :
          LET r == RobotHandle(baseline, con_id, new_qty, nfMode)
          IN /\ baseline' = r.baseline
             /\ events' = events + Len(r.emitted)
             /\ lastUpd' = [con |-> Some(con_id),
                            seen |-> con_id \in DOMAIN baseline,
                            prev |-> BaselineGet(baseline, con_id),
                            new |-> new_qty,
                            emitted |-> r.emitted]
             /\ nfTasks' = nfTasks + r.spawned
             /\ nfEscaped' = (nfEscaped \/ r.raised)
    /\ UNCHANGED <<attached, nfMode, nfFailed>>
    /\ UNCHANGED seqVars

\* a send task of robot.py's handler ends: the result, or the exception, of
\* send_text stays in the task
NfTaskEnds ==
    /\ nfTasks > 0
    /\ nfTasks' = nfTasks - 1
    /\ nfFailed' = (nfFailed \/ nfMode # "delivers")
    /\ UNCHANGED <<nfMode, nfEscaped>>
    /\ UNCHANGED <<pwVars, seqVars>>

\* updatePortfolioEvent delivers an item to the core watcher: the task of
\* _handle_update_portfolio runs _on_update_portfolio_async
NfCoreUpdate ==
    /\ handlers_attached
    /\ ibConnected
    /\ \E cid \in ConIds :
          LET r == CoreHandle(pos, cid, held[cid], nfMode)
          IN /\ pos' = r.pos
             /\ cwLast' = [con |-> Some(cid), prev |-> PosGet(pos, cid),
                           now |-> held[cid], emitted |-> r.emitted,
                           live |-> moved[cid],
                           settled |-> snapTasks = 0 /\ cwPc # "init_snapshot"]
             /\ nfFailed' = (nfFailed \/ r.undelivered)
             /\ nfEscaped' = (nfEscaped \/ r.raised)
    /\ UNCHANGED <<nfMode, nfTasks>>
    /\ UNCHANGED <<subscribed, handlers_attached, watcherStop, cwPc, snapTasks,
                   subTasks, held, moved, ibConnected>>

\* the robot runs one of the two watchers, the other is never started
NextNotify ==
    \/ InitCW /\ SeqStart /\ UNCHANGED nonPwVars
    \/ InitCW /\ WatcherStop /\ UNCHANGED nonPwVars
    \/ InitCW /\ NfRobotUpdate /\ UNCHANGED nonPwNfVars
    \/ InitCW /\ NfTaskEnds /\ UNCHANGED nonPwNfVars
    \/ InitPW /\ CwStart /\ UNCHANGED nonCwVars
    \/ InitPW /\ IbConnects /\ UNCHANGED nonCwVars
    \/ InitPW /\ IbDrops /\ UNCHANGED nonCwVars
    \/ InitPW /\ CwSnapshotOk /\ UNCHANGED nonCwVars
    \/ InitPW /\ BrokerTrade /\ UNCHANGED nonCwVars
    \/ InitPW /\ NfCoreUpdate /\ UNCHANGED nonCwNfVars

\* a capability that delivers
InitNf ==
    /\ nfMode = "delivers"
    /\ nfEscaped = FALSE
    /\ nfTasks = 0
    /\ nfFailed = FALSE

----------------------------------------------------------------------------
(* robot.amain: the reconnect loop around one IB instance.  Each pass that
   connects constructs a new PortfolioWatcher, numbered by amCycle *)

MaxCycles == 3              \* successful connects explored

\* the configuration amain's TelegramClient reads
AmTgConfig == [enabled_logs |-> EnabledLogs, enabled_trade |-> FALSE]

\* connectAsync returned
AmConnectOk ==
    /\ amPc = "connect"
    /\ amCycle < MaxCycles
    /\ amConn' = TRUE
    /\ amPc' = "start"
    /\ UNCHANGED <<amCycle, amHandlers, amRetry>>

\* connectAsync raised: except Exception logs it
AmConnectFail ==
    /\ amPc = "connect"
    /\ amPc' = "sleep_retry"
    /\ UNCHANGED <<amConn, amCycle, amHandlers, amRetry>>

\* watcher = PortfolioWatcher(...); await watcher.start(): the new watcher
\* is not attached, so its handler is added to the event
AmWatcherStart ==
    /\ amPc = "start"
    /\ amCycle' = amCycle + 1
    /\ amHandlers' = amHandlers \cup {amCycle + 1}
    /\ amPc' = "snapshot"
    /\ UNCHANGED <<amConn, amRetry>>

\* await tg_client.send_text(snapshot) and create_task(_hour_beacons): an
\* exception of the send reaches except Exception, past the finally of the
\* session block that was not entered
AmSnapshot ==
    /\ amPc = "snapshot"
    /\ \E text \in Texts \ {<< >>} :
          \E outs \in [1..Len(Chunk(text, ChunkLimit)) -> PostOutcomes] :
             IF EnabledLogs /\ SendTextSync(text, "logs", AmTgConfig, outs).raised
             THEN amPc' = "sleep_retry"
             ELSE amPc' = "session"
    /\ UNCHANGED <<amConn, amCycle, amHandlers, amRetry>>

\* mutant: the session block is left without watcher.stop()
AmSessionEndsAttached ==
    /\ amPc = "session"
    /\ ~amConn
    /\ amRetry' = BaseRetryDelay
    /\ amPc' = "sleep_retry"
    /\ UNCHANGED <<amConn, amCycle, amHandlers>>

\* while ib.isConnected() ends: finally cancels the beacons and awaits
\* watcher.stop(), then ib.disconnect() and retry = base_retry_delay
AmSessionEnds ==
    /\ amPc = "session"
    /\ ~amConn
    /\ amHandlers' = amHandlers \ {amCycle}
    /\ amRetry' = BaseRetryDelay
    /\ amPc' = "sleep_retry"
    /\ UNCHANGED <<amConn, amCycle>>

\* await asyncio.sleep(retry); retry = min(retry * 2, max_retry_delay)
AmRetrySleepElapsed ==
    /\ amPc = "sleep_retry"
    /\ amRetry' = Min(amRetry * 2, MaxRetryDelay)
    /\ amPc' = "connect"
    /\ UNCHANGED <<amConn, amCycle, amHandlers>>

\* amain is cancelled at an await: CancelledError is not an Exception; inside
\* the session block the finally still runs watcher.stop()
AmCancelled ==
    /\ amPc \in {"connect", "snapshot", "session", "sleep_retry"}
    /\ amHandlers' = IF amPc = "session" THEN amHandlers \ {amCycle}
                     ELSE amHandlers
    /\ amPc' = "cancelled"
    /\ UNCHANGED <<amConn, amCycle, amRetry>>

\* the connection to IB is lost
AmDrop ==
    /\ amConn
    /\ amConn' = FALSE
    /\ UNCHANGED <<amPc, amCycle, amHandlers, amRetry>>

NextAmain ==
    \/ AmConnectOk /\ UNCHANGED nonAmVars
    \/ AmConnectFail /\ UNCHANGED nonAmVars
    \/ AmWatcherStart /\ UNCHANGED nonAmVars
    \/ AmSnapshot /\ UNCHANGED nonAmVars
    \/ AmSessionEnds /\ UNCHANGED nonAmVars
    \/ AmRetrySleepElapsed /\ UNCHANGED nonAmVars
    \/ AmCancelled /\ UNCHANGED nonAmVars
    \/ AmDrop /\ UNCHANGED nonAmVars

InitAm ==
    /\ amPc = "connect"
    /\ amConn = FALSE
    /\ amCycle = 0
    /\ amHandlers = {}
    /\ amRetry = BaseRetryDelay

----------------------------------------------------------------------------
(* core/telegram.py: TelegramLogPump.  The messages are numbered 1, 2, ...
   in the order of the send() calls; 0 stands for the None that stop() puts.
   The queue bound max_queue is scaled down to QueueCap *)

QueueCap == 2               \* max_queue
MaxSends == 4               \* send() calls explored

\* start(): the _run task is created
PumpStart ==
    /\ pumpPc = "unstarted"
    /\ pumpPc' = "waiting"
    /\ UNCHANGED <<pumpQ, pumpItem, pumpStopPc, pumpSent, pumpSentAtStop,
                   pumpDelivered, pumpDropped>>

\* send(text): put_nowait; on QueueFull get_nowait() removes the oldest
\* entry, whatever it is, and put(text) finds room without suspending
PumpSend ==
    /\ pumpSent < MaxSends
    /\ pumpSent' = pumpSent + 1
    /\ IF Len(pumpQ) < QueueCap
       THEN /\ pumpQ' = Append(pumpQ, pumpSent + 1)
            /\ UNCHANGED pumpDropped
       ELSE /\ pumpQ' = Append(Tail(pumpQ), pumpSent + 1)
            /\ pumpDropped' = IF Head(pumpQ) = 0 THEN pumpDropped
                              ELSE pumpDropped \cup {Head(pumpQ)}
    /\ UNCHANGED <<pumpPc, pumpItem, pumpStopPc, pumpSentAtStop, pumpDelivered>>

\* _run: item = await self._q.get(); None breaks the loop, a text goes to
\* send_text_sync in a worker thread
PumpGet ==
    /\ pumpPc = "waiting"
    /\ Len(pumpQ) > 0
    /\ pumpQ' = Tail(pumpQ)
    /\ IF Head(pumpQ) = 0
       THEN pumpPc' = "done" /\ UNCHANGED pumpItem
       ELSE pumpPc' = "sending" /\ pumpItem' = Head(pumpQ)
    /\ UNCHANGED <<pumpStopPc, pumpSent, pumpSentAtStop, pumpDelivered, pumpDropped>>

\* the worker thread returns (send_text_sync returns True or False)
PumpSendDone ==
    /\ pumpPc = "sending"
    /\ pumpDelivered' = Append(pumpDelivered, pumpItem)
    /\ pumpPc' = "waiting"
    /\ UNCHANGED <<pumpQ, pumpItem, pumpStopPc, pumpSent, pumpSentAtStop, pumpDropped>>

\* stop(): returns when there is no task; else put(None), which suspends
\* while the queue is full
PumpStopCall ==
    /\ pumpStopPc = "idle"
    /\ pumpSentAtStop' = pumpSent
    /\ IF pumpPc = "unstarted"
       THEN pumpStopPc' = "done" /\ UNCHANGED pumpQ
       ELSE IF Len(pumpQ) < QueueCap
            THEN pumpStopPc' = "awaiting" /\ pumpQ' = Append(pumpQ, 0)
            ELSE pumpStopPc' = "putting" /\ UNCHANGED pumpQ
    /\ UNCHANGED <<pumpPc, pumpItem, pumpSent, pumpDelivered, pumpDropped>>

\* the suspended put(None) finds room
PumpStopPut ==
    /\ pumpStopPc = "putting"
    /\ Len(pumpQ) < QueueCap
    /\ pumpQ' = Append(pumpQ, 0)
    /\ pumpStopPc' = "awaiting"
    /\ UNCHANGED <<pumpPc, pumpItem, pumpSent, pumpSentAtStop, pumpDelivered,
                   pumpDropped>>

\* await self._task returns once _run has ended; finally self._task = None
PumpStopJoin ==
    /\ pumpStopPc = "awaiting"
    /\ pumpPc = "done"
    /\ pumpStopPc' = "done"
    /\ UNCHANGED <<pumpQ, pumpPc, pumpItem, pumpSent, pumpSentAtStop, pumpDelivered,
                   pumpDropped>>

NextPump ==
    \/ PumpStart /\ UNCHANGED nonPumpVars
    \/ PumpSend /\ UNCHANGED nonPumpVars
    \/ PumpGet /\ UNCHANGED nonPumpVars
    \/ PumpSendDone /\ UNCHANGED nonPumpVars
    \/ PumpStopCall /\ UNCHANGED nonPumpVars
    \/ PumpStopPut /\ UNCHANGED nonPumpVars
    \/ PumpStopJoin /\ UNCHANGED nonPumpVars

\* the event loop runs every task that can run: _run takes an item when
\* there is one, the worker thread ends (urlopen has a timeout), and stop()
\* resumes when its put has room and when the task has ended
PumpFairness ==
    /\ WF_vars(PumpGet /\ UNCHANGED nonPumpVars)
    /\ WF_vars(PumpSendDone /\ UNCHANGED nonPumpVars)
    /\ WF_vars(PumpStopPut /\ UNCHANGED nonPumpVars)
    /\ WF_vars(PumpStopJoin /\ UNCHANGED nonPumpVars)

InitPump ==
    /\ pumpQ = << >>
    /\ pumpPc = "unstarted"
    /\ pumpItem = 0
    /\ pumpStopPc = "idle"
    /\ pumpSent = 0
    /\ pumpSentAtStop = 0
    /\ pumpDelivered = << >>
    /\ pumpDropped = {}

----------------------------------------------------------------------------
(* _sleep_to_next_5s with sub-second time: the wall clock is counted in
   tenths of a second; asyncio.sleep is taken to last exactly as long as
   asked *)

Tenth == 10                 \* tenths in a second
MaxWakes == 3               \* grid sleeps followed
\* wall-clock times at which the first tick starts
GridStarts == {10000000 + o : o \in {0, 1, 25, 49}}

\* durations of a tick, in tenths: none, short, up to the grid step, overrun
WorkDurations == {0, 1, 13, 49, 50, 51, 70, 100}

\* mutant: the next slot is the first grid point at or after now
NextSlotAtOrAfter(now) == ((now + Grid * Tenth - 1) \div (Grid * Tenth)) * Grid

\* next_slot = (int(now.timestamp()) // 5 + 1) * 5, in seconds
NextSlotAfter(now) == (((now \div Tenth) \div Grid) + 1) * Grid

\* max(0.0, next_slot - now.timestamp()), in tenths
SleepDuration(now) == Max(0, NextSlotAfter(now) * Tenth - now)

\* the fetches of one tick take d tenths of a second
GridWork ==
    /\ gridPc = "work"
    /\ wakes < MaxWakes
    /\ \E d \in WorkDurations :
         /\ wall' = wall + d
         /\ lastWork' = d
    /\ gridPc' = "sleep"
    /\ UNCHANGED <<lastSleep, wakes>>

\* _sleep_to_next_5s: read the clock, sleep to the next slot
GridSleep ==
    /\ gridPc = "sleep"
    /\ lastSleep' = SleepDuration(wall)
    /\ wall' = wall + lastSleep'
    /\ wakes' = wakes + 1
    /\ gridPc' = "work"
    /\ UNCHANGED lastWork

NextGrid ==
    \/ GridWork /\ UNCHANGED nonGridVars
    \/ GridSleep /\ UNCHANGED nonGridVars

\* no grid sleep on its own
InitGrid ==
    /\ wall = 0
    /\ gridPc = "work"
    /\ lastWork = 0
    /\ lastSleep = 0
    /\ wakes = 0

----------------------------------------------------------------------------
(* Roster computations on their own: _neighbors_quarter applied to any
   identifier, and again to the neighbours it returns *)

MaxHops == 2                \* neighbour steps followed from one identifier

Roots == { <<"E", "S">>, <<"M", "N", "Q">> }

\* root, month letter and one year digit
ValidSymbols == { r \o <<MONTH_SEQ[m]>> \o <<Digits[d]>> :
                    r \in Roots, m \in 1..4, d \in 1..10 }

\* identifiers that are no quarterly symbol, and a lower-case one
OtherIdentifiers ==
    { << >>, <<"5">>, <<"E", "S", "5">>, <<"E", "S">>,
      <<"Z", "5">>, <<"H">>, <<"E", "S", "Z">>, <<"E", "S", "5", "Z">>,
      <<"E", "S", "Z", "5", "H">>, <<"E", "S", "Z", "X">>,
      <<"E", "S", "Z", "-">>, <<"E", "S", "Z", "-", "5">>,
      <<"E", "S", "Z", "+", "5">>, <<"E", "S", "H", "5", "X">>,
      <<"E", "S", "Z", "0", "5">>, <<"e", "s", "z", "5">> }

Identifiers == ValidSymbols \cup OtherIdentifiers

NoRoster == [st |-> "none"]

\* (prev, active, next) as _setup_tracked_set and _refresh_neighbors build
\* it, or the ValueError of _neighbors_quarter
RosterOf(id) ==
    LET n == NeighborsQuarter(Upper(id))
    IN IF n.ok
       THEN [st |-> "ok", prev |-> n.prev, active |-> Upper(id), next |-> n.next]
       ELSE [st |-> "error"]

\* active = cfg.active_local_symbol.upper(); _neighbors_quarter(active)
ComputeRoster ==
    /\ rosterOut = NoRoster
    /\ rosterOut' = RosterOf(rosterIn)
    /\ UNCHANGED <<rosterSeed, rosterIn, rosterPath>>

\* the next contract becomes the active one
FollowNext ==
    /\ rosterOut.st = "ok"
    /\ Len(rosterPath) < MaxHops
    /\ rosterIn' = rosterOut.next
    /\ rosterPath' = Append(rosterPath, "next")
    /\ rosterOut' = NoRoster
    /\ UNCHANGED rosterSeed

\* the previous contract becomes the active one
FollowPrev ==
    /\ rosterOut.st = "ok"
    /\ Len(rosterPath) < MaxHops
    /\ rosterIn' = rosterOut.prev
    /\ rosterPath' = Append(rosterPath, "prev")
    /\ rosterOut' = NoRoster
    /\ UNCHANGED rosterSeed

NextRoster ==
    \/ ComputeRoster /\ UNCHANGED nonRosVars
    \/ FollowNext /\ UNCHANGED nonRosVars
    \/ FollowPrev /\ UNCHANGED nonRosVars

\* no roster computation on its own
InitRos ==
    /\ rosterSeed = InitialActive
    /\ rosterIn = InitialActive
    /\ rosterOut = NoRoster
    /\ rosterPath = << >>

\* a roster computation for any identifier
InitRosterAny ==
    /\ InitBarsEmpty /\ InitPW /\ InitCW /\ InitMon /\ InitGrid /\ InitTg /\ InitNf /\ InitAm /\ InitPump
    /\ rosterSeed \in Identifiers
    /\ rosterIn = rosterSeed
    /\ rosterOut = NoRoster
    /\ rosterPath = << >>

\* the poll loop entered at any of the start times
InitGridAny ==
    /\ InitBarsEmpty /\ InitPW /\ InitCW /\ InitMon /\ InitRos /\ InitTg /\ InitNf /\ InitAm /\ InitPump
    /\ wall \in GridStarts
    /\ gridPc = "work"
    /\ lastWork = 0
    /\ lastSleep = 0
    /\ wakes = 0

\* the watchers under any behaviour of the notification capability
InitNotifyAny ==
    /\ InitBarsEmpty /\ InitPW /\ InitCW /\ InitMon /\ InitRos /\ InitGrid /\ InitTg /\ InitAm /\ InitPump
    /\ nfMode \in NotifyModes
    /\ nfEscaped = FALSE
    /\ nfTasks = 0
    /\ nfFailed = FALSE

----------------------------------------------------------------------------
(* Specifications *)

Init == InitBars /\ InitPW /\ InitCW /\ InitMon /\ InitRos /\ InitGrid /\ InitTg /\ InitNf /\ InitAm /\ InitPump

\* all components over an empty database
InitEmpty == InitBarsEmpty /\ InitPW /\ InitCW /\ InitMon /\ InitRos /\ InitGrid /\ InitTg /\ InitNf /\ InitAm /\ InitPump

Next == NextBars

\* the bar collector
Spec == Init /\ [][Next]_vars

\* the store operations with arbitrary batches
SpecStore == InitEmpty /\ [][NextStore]_vars

\* the position watcher of robot.py
SpecPW == InitEmpty /\ [][NextPW]_vars

\* the position watcher of robot.py following one instrument
SpecSeq == InitEmpty /\ [][NextSeq]_vars

\* the position watcher of core/portfolio_watch.py
SpecCW == InitEmpty /\ [][NextCW]_vars

\* a process runs one of the two position watchers: the one of robot.py
\* (the other is never started) or the one of core/portfolio_watch.py
NextWatchers ==
    \/ InitCW /\ NextPW
    \/ InitPW /\ NextCW

SpecWatchers == InitEmpty /\ [][NextWatchers]_vars

\* the connection service of core/ib_connection.py
SpecMon == InitEmpty /\ [][NextMon]_vars

\* robot.amain alone
SpecAmain == InitEmpty /\ [][NextAmain]_vars

\* TelegramLogPump alone, under the scheduling of the event loop
SpecPumpFair == InitEmpty /\ [][NextPump]_vars /\ PumpFairness

\* the bar collector on a connection that comes and goes: the feed answers a
\* request only while connected; while disconnected the request raises
\* or stays pending
NextGate ==
    \/ IbConnects /\ UNCHANGED nonCwVars
    \/ IbDrops /\ UNCHANGED nonCwVars
    \/ Run /\ UNCHANGED nonBarsVars
    \/ BackfillSymbol /\ UNCHANGED nonBarsVars
    \/ BackfillDone /\ UNCHANGED nonBarsVars
    \/ FetchRangeRequest /\ UNCHANGED nonBarsVars
    \/ FetchRangeFail /\ UNCHANGED nonBarsVars
    \/ ibConnected /\ FetchRangeStore /\ UNCHANGED nonBarsVars
    \/ LoopIter /\ UNCHANGED nonBarsVars
    \/ LoopExit /\ UNCHANGED nonBarsVars
    \/ IncrementalRequest /\ UNCHANGED nonBarsVars
    \/ IncrementalFail /\ UNCHANGED nonBarsVars
    \/ ibConnected /\ IncrementalStore /\ UNCHANGED nonBarsVars
    \/ SleepToNext5s /\ UNCHANGED nonBarsVars
    \/ StopCall /\ UNCHANGED nonBarsVars
    \/ StopClose /\ UNCHANGED nonBarsVars

SpecGate == InitEmpty /\ [][NextGate]_vars

\* the bar collector constructed for the later of the two active symbols,
\* so that a change of the active symbol brings a stored contract back
InitRoll ==
    /\ \E k \in 1..Len(StoredChoices(0)) :
          InitCollectorAt(CHOOSE a \in ActiveSymbols : a # InitialActive, k)
    /\ InitPW /\ InitCW /\ InitMon /\ InitRos /\ InitGrid /\ InitTg /\ InitNf /\ InitAm /\ InitPump

SpecRoll == InitRoll /\ [][Next]_vars

\* the grid sleep of the poll loop with sub-second time
SpecGrid == InitGridAny /\ [][NextGrid]_vars

\* the position watchers and their notifications
SpecNotify == InitNotifyAny /\ [][NextNotify]_vars

\* calls of the Telegram client
SpecTg == InitEmpty /\ [][NextTg]_vars

\* roster computations for any identifier
SpecRoster == InitRosterAny /\ [][NextRoster]_vars

----------------------------------------------------------------------------
(* Properties of the bar store and of the backfill *)

StoredRows(s) == Rows(tables[s])

\* C1: (symbol, ts) is a primary key -- every table holds at most one row
\* per timestamp -- and a stored row keeps the values of the first delivery
\* of its timestamp, whatever a later delivery carries.
C1_PrimaryKeyFirstDelivery ==
    \A s \in DOMAIN tables :
        /\ \A r \in StoredRows(s) : CopiesIn(r, tables[s].rows) = 1
        /\ \A r1, r2 \in StoredRows(s) : r1.ts = r2.ts => r1 = r2
        /\ \A r \in StoredRows(s) : r \in firstRow[s]

\* a batch was inserted that carried other values for a stored timestamp,
\* and the stored row is still the one of the first delivery
C1_Witness ==
    \E i \in 1..Len(lastIns.rows) :
        /\ HasTs(tables[lastIns.sym], lastIns.rows[i].ts)
        /\ lastIns.rows[i] \notin StoredRows(lastIns.sym)

\* C2: inserting a batch twice in a row leaves the same rows, with the same
\* multiplicities and values, as inserting it once -- for every table
\* reachable by inserts and every test batch, and for the batch just inserted.
C2_InsertBatchIdempotent ==
    /\ \A s \in StoreSyms : \A b \in TestBatches :
          tables[s].exists =>
              BulkInsertIgnore(BulkInsertIgnore(tables[s], b), b)
                  = BulkInsertIgnore(tables[s], b)
    /\ lastIns # NoIns =>
          BulkInsertIgnore(tables[lastIns.sym], lastIns.rows)
              = tables[lastIns.sym]

\* a batch with two different rows for one timestamp went into a table that
\* already held a row, and added one
C2_Witness ==
    /\ Len(lastIns.rows) = 2
    /\ lastIns.rows[1].ts = lastIns.rows[2].ts
    /\ lastIns.rows[1] # lastIns.rows[2]
    /\ lastIns.rows[1] \in StoredRows(lastIns.sym)
    /\ Cardinality(StoredRows(lastIns.sym)) >= 2

\* C3: the store is append-only: a stored row stays stored, once and with
\* the same values, across every step (backfill, poll, _ensure_table,
\* re-roster, stop), and a table is never dropped.
C3_AppendOnly ==
    [][\A s \in DOMAIN tables :
          /\ tables[s].exists => tables'[s].exists
          /\ \A r \in StoredRows(s) :
                CopiesIn(r, tables'[s].rows) = CopiesIn(r, tables[s].rows)]_vars

\* a symbol has left the roster, the collector was stopped, its bars are kept
C3_Witness ==
    /\ stopPc = "closed"
    /\ \E s \in (DOMAIN tables) \ KeySet(tracked) : StoredRows(s) # {}
    /\ \E s \in DOMAIN tables : lastIns.sym = s /\ Len(lastIns.rows) > 0

\* C4 (as claimed): with every fetch succeeding the window loop of
\* _fetch_and_store_range ends once the window ending at now has been
\* processed: no further request is issued by that backfill.
C4_BackfillEndsAfterFinalWindow ==
    ~(pc = "bf_wait" /\ bf.finalDone)

\* C5: once the window ending at now has been processed, every bar the feed
\* holds for the symbol between the backfill start and now is stored.
C5_BackfillComplete ==
    (pc \in {"bf_loop", "bf_wait"} /\ bf.finalDone) =>
        \A t \in FeedOf(bf.sym) :
            (bf.start0 <= t /\ t <= bf.now) => HasTs(tables[bf.sym], t)

\* a backfill of more than one window is complete with bars from two windows
C5_Witness ==
    /\ pc = "bf_loop" /\ bf.finalDone
    /\ bf.now - bf.start0 > Day
    /\ \E t1, t2 \in FeedOf(bf.sym) :
          /\ bf.start0 <= t1 /\ t1 <= bf.start0 + Day
          /\ bf.start0 + Day < t2 /\ t2 <= bf.now
          /\ HasTs(tables[bf.sym], t1) /\ HasTs(tables[bf.sym], t2)

MaxBackfillWindow == BackfillMaxDays * Day

\* C6: the backfill starts at max(L + 5, now - max window) when a last
\* stored timestamp L exists, at now - min(1 day, max window) otherwise, and
\* never before now - max window.
C6_BackfillStart ==
    (pc \in {"bf_loop", "bf_wait"}) =>
        /\ bf.L # None =>
              bf.start0 = Max(Val(bf.L) + 5, bf.now - MaxBackfillWindow)
        /\ bf.L = None =>
              bf.start0 = bf.now - Min(Day, MaxBackfillWindow)
        /\ bf.start0 >= bf.now - MaxBackfillWindow
        /\ bf.L # None => HasTs(tables[bf.sym], Val(bf.L))

\* a backfill whose last stored bar is older than the backfill limit
C6_Witness ==
    /\ pc = "bf_wait"
    /\ bf.L # None
    /\ Val(bf.L) + 5 < bf.now - MaxBackfillWindow
    /\ bf.start0 = bf.now - MaxBackfillWindow

\* C7 (as claimed): with a last stored timestamp L, every request of a
\* backfill run covers only time inside [L + 5, now].
C7_RequestsInsideResumeWindow ==
    (pc = "bf_wait" /\ bf.L # None) =>
        /\ req.end <= bf.now
        /\ req.end - req.dur >= Val(bf.L) + 5

\* C7 (amended): every request of a backfill run ends at or before now and
\* starts at or after L + 5, except that a window shorter than 30 seconds is
\* requested with the minimum duration of 30 seconds and then starts 30
\* seconds before its end.
C7_RequestsInsideResumeWindowOrFloor ==
    (pc = "bf_wait" /\ bf.L # None) =>
        /\ req.kind = "backfill" /\ req.sym = bf.sym
        /\ req.end <= bf.now
        /\ req.end - req.dur >= Min(Val(bf.L) + 5, req.end - 30)
        /\ req.dur >= 30

\* a resumed backfill has issued a request of more than the minimum duration
C7_Witness ==
    /\ pc = "bf_wait"
    /\ bf.L # None
    /\ req.dur > 30
    /\ req.end - req.dur = Val(bf.L) + 5

\* C8 (as claimed): every stored bar has a timestamp that is a multiple of
\* 5, whatever timestamps the feed returns.
C8_StoredTimestampsOnGrid ==
    \A s \in DOMAIN tables : \A r \in StoredRows(s) : r.ts % 5 = 0

----------------------------------------------------------------------------
(* Properties of the position watcher of robot.py *)

\* C9: the first update of an instrument without a baseline entry only
\* records the baseline and emits nothing, whatever the quantity.
C9_FirstSightSilent ==
    (lastUpd.con # None /\ ~lastUpd.seen) =>
        /\ lastUpd.emitted = << >>
        /\ Val(lastUpd.con) \in DOMAIN baseline
        /\ baseline[Val(lastUpd.con)] = lastUpd.new

\* an unseen instrument was first observed with a non-zero quantity
C9_Witness ==
    /\ lastUpd.con # None /\ ~lastUpd.seen
    /\ lastUpd.new # 0
    /\ events = 0

Sign(q) == IF q > 0 THEN 1 ELSE IF q < 0 THEN -1 ELSE 0
SideOfSign(sg) == IF sg = 1 THEN "LONG" ELSE "SHORT"

\* kind the classification table gives for (prev, new)
TableKind(prev, new) ==
    IF prev = 0 /\ new # 0 THEN "Opened"
    ELSE IF prev # 0 /\ new = 0 THEN "Closed"
    ELSE IF Sign(prev) * Sign(new) = -1 THEN "Reversed"
    ELSE IF Sign(prev) * Sign(new) = 1 /\ Abs(new) > Abs(prev) THEN "Added"
    ELSE IF Sign(prev) * Sign(new) = 1 /\ Abs(new) < Abs(prev) THEN "Reduced"
    ELSE "none"

\* C10: an update of an instrument with baseline prev emits Opened (side of
\* new), Closed (side of prev), Added, Reduced or Reversed (prev side to new
\* side) as the table says, and never more than one event.
C10_Classification ==
    (lastUpd.con # None /\ lastUpd.seen) =>
        LET prev == lastUpd.prev
            new == lastUpd.new
            k == TableKind(prev, new)
        IN /\ Len(lastUpd.emitted) <= 1
           /\ k = "none" <=> lastUpd.emitted = << >>
           /\ k # "none" =>
                /\ lastUpd.emitted[1].kind = k
                /\ lastUpd.emitted[1].con = Val(lastUpd.con)
                /\ k = "Opened" =>
                      lastUpd.emitted[1].side = SideOfSign(Sign(new))
                /\ k = "Closed" =>
                      lastUpd.emitted[1].side = SideOfSign(Sign(prev))
                /\ k = "Reversed" =>
                      /\ lastUpd.emitted[1].prev_side = SideOfSign(Sign(prev))
                      /\ lastUpd.emitted[1].new_side = SideOfSign(Sign(new))

\* a short position was flipped to a long one and reported as a reversal
C10_Witness ==
    /\ lastUpd.con # None /\ lastUpd.seen
    /\ lastUpd.prev < 0 /\ lastUpd.new > 0
    /\ Len(lastUpd.emitted) = 1
    /\ lastUpd.emitted[1].kind = "Reversed"

\* updates of the followed instrument, after its first, that deliver a
\* quantity other than the baseline of that moment (the quantity before)
Changes(tr) == {i \in 2..Len(tr) : tr[i] # tr[i - 1]}

\* C11: over any sequence of updates of one instrument, first seen by its
\* first update, as many events are emitted as there are later updates whose
\* quantity differs from the baseline; [unseen->5, 5->5, 5->0] emits only
\* Closed LONG and [unseen->-3, -3->2] only Reversed SHORT->LONG.
C11_OneEventPerChange ==
    /\ Len(evlog) = Cardinality(Changes(trace))
    /\ trace = <<5 * Lot, 5 * Lot, 0>> =>
          /\ Len(evlog) = 1
          /\ evlog[1].kind = "Closed" /\ evlog[1].side = "LONG"
    /\ trace = <<-3 * Lot, 2 * Lot>> =>
          /\ Len(evlog) = 1
          /\ evlog[1].kind = "Reversed"
          /\ evlog[1].prev_side = "SHORT" /\ evlog[1].new_side = "LONG"

\* the instrument was first seen at 5, updated to 5 again and then to 0
C11_Witness ==
    /\ trace = <<5 * Lot, 5 * Lot, 0>>
    /\ Len(evlog) = 1
    /\ baseline[SeqCon] = 0

----------------------------------------------------------------------------
(* Properties of the position watcher of core/portfolio_watch.py *)

\* C12 (as claimed): an Opened or Closed message is sent only for a position
\* that changed during the current connection, never for one that existed
\* before the start or reconnect or that changed while disconnected; stated
\* here for the updates handled once no position snapshot is pending,
\* whether the snapshot succeeded or failed.
C12_NoEventForOfflineChange ==
    (cwLast.emitted # << >> /\ cwLast.settled) => cwLast.live

\* C13: every processed update (instrument, new quantity) leaves the
\* baseline of that instrument equal to the new quantity and the baselines of
\* all other instruments as they were, whether or not an event fired, in
\* robot.py's watcher and in the one of core/portfolio_watch.py.
C13_BaselineFollowsUpdate ==
    [][/\ (lastUpd' # lastUpd /\ lastUpd'.con # None) =>
            LET c == Val(lastUpd'.con)
            IN /\ DOMAIN baseline' = DOMAIN baseline \cup {c}
               /\ baseline'[c] = lastUpd'.new
               /\ \A d \in DOMAIN baseline \ {c} : baseline'[d] = baseline[d]
       /\ cwLast'.con # None =>
            LET c == Val(cwLast'.con)
            IN /\ DOMAIN pos' = DOMAIN pos \cup {c}
               /\ pos'[c] = cwLast'.now
               /\ \A d \in DOMAIN pos \ {c} : pos'[d] = pos[d]]_vars

\* robot.py's watcher handled an update of a known instrument that fired no
\* event, while it holds a baseline for another instrument
C13_Witness ==
    /\ lastUpd.con # None /\ lastUpd.seen
    /\ lastUpd.emitted = << >>
    /\ lastUpd.new # 0
    /\ baseline[Val(lastUpd.con)] = lastUpd.new
    /\ \E d \in DOMAIN baseline : d # Val(lastUpd.con) /\ baseline[d] # 0

----------------------------------------------------------------------------
(* Further properties of the position watcher of robot.py *)

\* C14 (as claimed): an Added or Reduced event reports the signed change
\* delta = new - prev, with prev the baseline before the update and new the
\* quantity of the update (+2 for 3 -> 5, -2 for -3 -> -5).
C14_SignedDelta ==
    (lastUpd.con # None /\ lastUpd.emitted # << >>
        /\ lastUpd.emitted[1].kind \in {"Added", "Reduced"}) =>
        /\ lastUpd.emitted[1].prev = lastUpd.prev
        /\ lastUpd.emitted[1].new = lastUpd.new
        /\ lastUpd.emitted[1].delta = lastUpd.new - lastUpd.prev

\* C15 (as claimed): both position watchers treat a quantity whose absolute
\* value is below the epsilon threshold as zero: an update of a flat
\* instrument to a near-zero residue emits nothing, and an update of a
\* non-zero position to a near-zero residue emits Closed.
C15_EpsilonIsZero ==
    /\ (lastUpd.con # None /\ lastUpd.seen /\ IsZero(lastUpd.new)) =>
            IF IsZero(lastUpd.prev)
            THEN lastUpd.emitted = << >>
            ELSE /\ Len(lastUpd.emitted) = 1
                 /\ lastUpd.emitted[1].kind = "Closed"
    /\ (cwLast.con # None /\ IsZero(cwLast.now)) =>
            IF IsZero(cwLast.prev)
            THEN cwLast.emitted = << >>
            ELSE /\ Len(cwLast.emitted) = 1
                 /\ cwLast.emitted[1].kind = "Closed"

----------------------------------------------------------------------------
(* Properties of the connection service of core/ib_connection.py *)

\* C16: the attempts since the last success are preceded by the waits base,
\* 2*base, 4*base, ..., each capped at max_retry_delay (1.5 s, 3.0 s, 6.0 s
\* before the first three), so no wait exceeds the maximum.
C16_BackoffSchedule ==
    \A i \in 1..Len(waits) :
        /\ waits[i] = Min(BaseRetryDelay * 2^(i - 1), MaxRetryDelay)
        /\ waits[i] <= MaxRetryDelay

\* C16 witness: a run of failures long enough for the cap to apply twice
C16_Witness ==
    /\ monPc = "top"
    /\ ~svcConnected
    /\ Len(waits) >= 7
    /\ SubSeq(waits, 1, 3) = <<3, 6, 12>>
    /\ waits[6] = MaxRetryDelay
    /\ waits[7] = MaxRetryDelay

\* C17: while connected the backoff delay is the base delay, whatever number
\* of failures preceded the connect, and the first retry after a drop waits
\* the base delay.
C17_ResetOnSuccess ==
    /\ svcConnected => backoff = BaseRetryDelay
    /\ (monPc = "sleep_delay" /\ Len(waits) = 1) => waits[1] = BaseRetryDelay

\* C17 witness: the first retry after a connect that three failures preceded
C17_Witness ==
    /\ prevFails >= 3
    /\ monPc = "sleep_delay"
    /\ Len(waits) = 1

\* C18 (as claimed): once the stop event is set, monitor_forever starts no
\* new connect attempt.
C18_NoAttemptAfterStop ==
    [][(monPc = "sleep_delay" /\ monPc' = "connecting") => ~stop_event]_vars

----------------------------------------------------------------------------
(* Properties of BarsCollector.run and the connection *)

\* C19 (as claimed): BarsCollector issues a feed request (backfill or
\* incremental) only while the feed is connected.
C19_FetchOnlyWhileConnected ==
    [][(req' # req /\ req'.kind # "none") => ibConnected]_vars

\* C20 (as claimed): once stop() has cleared _running under a started run(),
\* run() issues no further feed request, in the backfill phase, inside a
\* tick or in a later tick.
C20_NoFetchAfterStop ==
    [][(req' # req /\ req'.kind # "none") => running]_vars

----------------------------------------------------------------------------
(* Properties of the contract roster *)

\* the seed is a valid quarterly symbol and its roster has been computed
SeedRosterDone ==
    /\ rosterSeed \in ValidSymbols
    /\ rosterPath = << >>
    /\ rosterOut # NoRoster

SeedRoot == SubSeq(rosterSeed, 1, Len(rosterSeed) - 2)
SeedMonth == rosterSeed[Len(rosterSeed) - 1]
SeedYear == <<rosterSeed[Len(rosterSeed)]>>

\* the cycle H -> M -> U -> Z -> H
CycleNext == [m \in {"H", "M", "U", "Z"} |->
                CASE m = "H" -> "M" [] m = "M" -> "U"
                  [] m = "U" -> "Z" [] m = "Z" -> "H"]
CyclePrev == [m \in {"H", "M", "U", "Z"} |->
                CASE m = "H" -> "Z" [] m = "M" -> "H"
                  [] m = "U" -> "M" [] m = "Z" -> "U"]

\* C21 (as claimed): for every valid quarterly symbol the month of the next
\* symbol is the successor of the active month in H -> M -> U -> Z -> H and
\* the month of the previous symbol is its predecessor (Z for H).
C21_OneStepInCycle ==
    SeedRosterDone =>
        /\ rosterOut.st = "ok"
        /\ rosterOut.next[Len(SeedRoot) + 1] = CycleNext[SeedMonth]
        /\ rosterOut.prev[Len(SeedRoot) + 1] = CyclePrev[SeedMonth]

\* C22: for active month H the previous symbol is <ROOT>U<year-1>, for
\* active month Z the next symbol is <ROOT>H<year+1>, and every other step
\* keeps the root and the year digit.
C22_YearRollover ==
    SeedRosterDone =>
        /\ rosterOut.st = "ok"
        /\ rosterOut.prev =
             IF SeedMonth = "H"
             THEN SeedRoot \o <<"U">> \o IntStr(DigitVal(SeedYear[1]) - 1)
             ELSE SeedRoot \o <<CyclePrev[SeedMonth]>> \o SeedYear
        /\ rosterOut.next =
             IF SeedMonth = "Z"
             THEN SeedRoot \o <<"H">> \o IntStr(DigitVal(SeedYear[1]) + 1)
             ELSE SeedRoot \o <<CycleNext[SeedMonth]>> \o SeedYear

\* C22 witness: roster(MNQZ5) = (MNQU5, MNQZ5, MNQH6), then the roster of its
\* next symbol, roster(MNQH6) = (MNQU5, MNQH6, MNQM6)
C22_Witness ==
    /\ rosterSeed = <<"M", "N", "Q", "Z", "5">>
    /\ rosterPath = <<"next">>
    /\ rosterIn = <<"M", "N", "Q", "H", "6">>
    /\ rosterOut = [st |-> "ok", prev |-> <<"M", "N", "Q", "U", "5">>,
                    active |-> <<"M", "N", "Q", "H", "6">>,
                    next |-> <<"M", "N", "Q", "M", "6">>]

\* C23: the roster of a valid quarterly symbol is three pairwise distinct
\* symbols, and the roster of its next symbol is computed without error and
\* has that symbol as its active member.
C23_ThreeDistinctAndNextValid ==
    /\ SeedRosterDone =>
         /\ rosterOut.st = "ok"
         /\ rosterOut.active = rosterSeed
         /\ Cardinality({rosterOut.prev, rosterOut.active, rosterOut.next}) = 3
    /\ (rosterSeed \in ValidSymbols /\ rosterPath = <<"next">>
           /\ rosterOut # NoRoster) =>
         /\ rosterOut.st = "ok"
         /\ rosterOut.active = rosterIn

\* C23 witness: the roster of the next symbol of a December contract of
\* year 9 has been computed
C23_Witness ==
    /\ rosterSeed = <<"M", "N", "Q", "Z", "9">>
    /\ rosterPath = <<"next">>
    /\ rosterOut # NoRoster

\* position of the last month letter of an identifier, 0 when it has none
LastMonthPos(id) ==
    LET P == {i \in 1..Len(id) : Upper(id)[i] \in {"H", "M", "U", "Z"}}
    IN IF P = {} THEN 0 ELSE SetMax(P)

\* no month letter, the last one first or last, or no digit after it
Malformed(id) ==
    \/ LastMonthPos(id) \in {0, 1, Len(id)}
    \/ ~IsDigit(id[LastMonthPos(id) + 1])

\* C24 (as claimed): the roster computation fails for every identifier
\* without month letter, with its last month letter first or last, or with
\* a month letter that no year digit follows.
C24_MalformedRejected ==
    (rosterPath = << >> /\ rosterOut # NoRoster /\ Malformed(rosterSeed)) =>
        rosterOut.st = "error"

----------------------------------------------------------------------------
(* Properties of the tracked set *)

\* the cached last_ts of a tracked symbol
CachedLastTs(trk, sym) ==
    (CHOOSE e \in {trk[i] : i \in 1..Len(trk)} : e.sym = sym).last_ts

\* the maximum timestamp stored for a symbol, None without rows or table
StoredMaxTs(t) ==
    IF t.exists /\ Rows(t) # {}
    THEN Some(SetMax({r.ts : r \in Rows(t)}))
    ELSE None

\* C25: after every re-roster the tracked set is exactly {previous, active,
\* next} of the active symbol; the store is untouched (dropped symbols keep
\* their bars), symbols already tracked keep their cached last_ts and each
\* entering symbol gets the store's maximum timestamp, or none.
C25_RerosterTracksRoster ==
    [][(pc = "loop" /\ pc' = "tick") =>
        LET r == RosterOf(cfgActive)
        IN /\ r.st = "ok"
           /\ Len(tracked') = 3
           /\ KeySet(tracked') = {r.prev, r.active, r.next}
           /\ tables' = tables
           /\ \A sym \in KeySet(tracked') :
                CachedLastTs(tracked', sym) =
                    IF sym \in KeySet(tracked)
                    THEN CachedLastTs(tracked, sym)
                    ELSE StoredMaxTs(tables[sym])]_vars

\* C25 witness: a re-roster has just dropped one symbol, whose table is
\* still there, kept a symbol with a cached last_ts and taken in a symbol
\* that has stored bars
C25_Witness ==
    /\ pc = "tick"
    /\ idx = 1
    /\ cfgActive = InitialActive
    /\ KeySet(tracked) = {Roster(InitialActive)[i] : i \in 1..3}
    /\ \E s \in DOMAIN tables \ KeySet(tracked) : tables[s].exists
    /\ CachedLastTs(tracked, InitialActive) # None
    /\ CachedLastTs(tracked, InitialActive) = StoredMaxTs(tables[InitialActive])
    /\ \E s \in KeySet(tracked) \ {InitialActive} :
          CachedLastTs(tracked, s) # None

\* None counts as below every timestamp
LastTsLeq(a, b) == a = None \/ (b # None /\ Val(a) <= Val(b))

\* C26: for every tracked symbol the cached last_ts equals the maximum
\* timestamp stored for it (none iff it has no rows); a write advances it to
\* at least the maximum timestamp written, and it never decreases.
C26_CacheMirrorsStore ==
    /\ [](\A sym \in KeySet(tracked) :
            CachedLastTs(tracked, sym) = StoredMaxTs(tables[sym]))
    /\ [][/\ \A sym \in KeySet(tracked) \cap KeySet(tracked') :
               LastTsLeq(CachedLastTs(tracked, sym), CachedLastTs(tracked', sym))
          /\ (\/ lastIns' # lastIns
              \/ \E sym \in DOMAIN tables : tables'[sym].rows # tables[sym].rows) =>
               /\ lastIns'.rows # << >>
               /\ lastIns'.sym \in KeySet(tracked')
               /\ LastTsLeq(Some(SeqMaxTs(lastIns'.rows)),
                            CachedLastTs(tracked', lastIns'.sym))]_vars

\* C26 witness: a poll has just written bars newer than the cached last_ts
\* of a symbol that had stored bars before
C26_Witness ==
    /\ pc = "tick"
    /\ lastIns.rows # << >>
    /\ lastIns.sym \in KeySet(tracked)
    /\ CachedLastTs(tracked, lastIns.sym) = Some(SeqMaxTs(lastIns.rows))
    /\ \E r \in firstRow[lastIns.sym] : r.ts < lastIns.rows[1].ts

----------------------------------------------------------------------------
(* Properties of the backfill phase and the poll loop of BarsCollector.run *)

RowsChange(sym) == tables'[sym].rows # tables[sym].rows

\* C28: run() issues a feed request only when none is outstanding, writes
\* rows only for the symbol of the outstanding request, whose response this
\* consumes, and issues a poll request only when no backfill is under way.
C28_OneFetchAtATime ==
    [][/\ (req' # req /\ req'.kind # "none") => req.kind = "none"
       /\ \A sym \in DOMAIN tables :
            RowsChange(sym) =>
                /\ req.kind # "none"
                /\ req.sym = sym
                /\ req' = NoReq
       /\ (req' # req /\ req'.kind = "incremental") =>
                /\ bf = NoBf
                /\ pc = "tick"
                /\ req'.sym = symList[idx]
       /\ (req' # req /\ req'.kind = "backfill") =>
                /\ pc = "bf_loop"
                /\ req'.sym = symList[idx]
                /\ ticks = 0]_vars

\* C28 witness: the poll of the third symbol of a tick is outstanding, after
\* the backfill of that symbol and the poll of the second symbol stored bars
C28_Witness ==
    /\ pc = "tick_wait"
    /\ req.kind = "incremental"
    /\ idx = 3
    /\ bf = NoBf
    /\ lastIns.sym = symList[2]
    /\ Cardinality(Rows(tables[req.sym])) > 1

\* values of cfg.short_window_seconds considered for the floor
ShortWindows == {1, 20, 29, 30, 31, 40, 60}

\* C29: with the store open, the poller requests for every tracked symbol,
\* in turn, the window ending at now of max(30, short_window_seconds)
\* seconds; the returned bars are inserted idempotently; an empty response
\* changes neither the rows nor the cache and the tick goes on.
C29_PollTick ==
    /\ [](\A s \in ShortWindows :
            IncrementalDurationOf(s) = IF s > 30 THEN s ELSE 30)
    /\ [][(pc = "tick" /\ idx <= Len(symList) /\ connOpen
              /\ (pc' # pc \/ idx' # idx)) =>
            /\ symList = Keys(tracked)
            /\ pc' = "tick_wait"
            /\ req' = [kind |-> "incremental", sym |-> symList[idx],
                       end |-> clock,
                       dur |-> IF ShortWindowSeconds > 30
                               THEN ShortWindowSeconds ELSE 30]]_vars
    /\ [][(pc = "tick_wait" /\ pc' # pc) =>
            /\ pc' = "tick"
            /\ idx' = idx + 1
            /\ Response(req.sym, req.end, req.dur, feedRev, TRUE) = << >> =>
                 tables' = tables /\ tracked' = tracked
            /\ RowsChange(req.sym) =>
                 /\ lastIns'.sym = req.sym
                 /\ Rows(tables[req.sym]) \subseteq Rows(tables'[req.sym])
                 /\ \A i \in 1..Len(lastIns'.rows) :
                       HasTs(tables'[req.sym], lastIns'.rows[i].ts)
                 /\ \A r1, r2 \in Rows(tables'[req.sym]) :
                       r1.ts = r2.ts => r1 = r2
                 /\ BulkInsertIgnore(tables'[req.sym], lastIns'.rows)
                       = tables'[req.sym]]_vars
    /\ [][(pc = "tick" /\ pc' = "loop") => idx > Len(symList)]_vars

\* C29 witness: in one tick the poll of a symbol without bars came back
\* empty and the poll of the next symbol has stored its bars
C29_Witness ==
    /\ pc = "tick"
    /\ idx = 3
    /\ connOpen
    /\ feedTs[symList[1]] = {}
    /\ tables[symList[1]].exists
    /\ Rows(tables[symList[1]]) = firstRow[symList[1]]
    /\ lastIns.sym = symList[2]
    /\ \A i \in 1..Len(lastIns.rows) : HasTs(tables[symList[2]], lastIns.rows[i].ts)

----------------------------------------------------------------------------
(* Properties of the grid sleep *)

\* C30: every wake-up is at the smallest multiple of 5 seconds strictly
\* greater than the time read when the tick finished: it is on the grid, the
\* sleep is > 0 and <= 5 seconds, also after a tick that overran.
C30_WakeOnGrid ==
    (gridPc = "work" /\ wakes > 0) =>
        /\ wall % (Grid * Tenth) = 0
        /\ lastSleep > 0
        /\ lastSleep <= Grid * Tenth
        /\ \A t \in (wall - lastSleep + 1)..(wall - 1) : t % (Grid * Tenth) # 0

\* C30 witness: the second wake-up, after a tick that took longer than the
\* grid step and ended off the grid
C30_Witness ==
    /\ gridPc = "work"
    /\ wakes = 2
    /\ lastWork > Grid * Tenth
    /\ (wall - lastSleep) % Tenth # 0

----------------------------------------------------------------------------
(* Properties of the Telegram client *)

\* the destination of the call is one of the two channels and is enabled
TgEnabled == \/ tgCall.to = "logs" /\ tgCall.cfg.enabled_logs
             \/ tgCall.to = "trade" /\ tgCall.cfg.enabled_trade

\* C32 (as claimed): send_text_sync / send_text never throws, for any text
\* and any destination value; it returns True only when the destination is
\* enabled and every chunk was posted successfully, False otherwise, and
\* attempts every chunk even after one failed.
C32_DeliverNeverThrows ==
    tgCall # NoCall =>
        /\ ~tgResult.raised
        /\ tgResult.ret <=>
              (TgEnabled /\ \A k \in DOMAIN tgCall.outs : tgCall.outs[k] = "ok")
        /\ TgEnabled => tgResult.posted = Chunk(tgCall.text, ChunkLimit)

----------------------------------------------------------------------------
(* Properties of the watchers under a failing notification capability *)

\* C31: with a notification capability that always fails (returns False or
\* raises), no exception leaves a handler of either position watcher, every
\* update still leaves its quantity in the baseline, and the updates after a
\* failed notification are classified as the table says.
C31_NotifyFailureContained ==
    nfMode # "delivers" =>
        /\ ~nfEscaped
        /\ lastUpd.con # None =>
              /\ baseline[Val(lastUpd.con)] = lastUpd.new
              /\ lastUpd.seen =>
                    LET k == TableKind(lastUpd.prev, lastUpd.new)
                    IN IF k = "none" THEN lastUpd.emitted = << >>
                       ELSE /\ Len(lastUpd.emitted) = 1
                            /\ lastUpd.emitted[1].kind = k
        /\ cwLast.con # None =>
              /\ pos[Val(cwLast.con)] = cwLast.now
              /\ IF IsZero(cwLast.prev) /\ ~IsZero(cwLast.now)
                 THEN /\ Len(cwLast.emitted) = 1
                      /\ cwLast.emitted[1].kind = "Opened"
                 ELSE IF ~IsZero(cwLast.prev) /\ IsZero(cwLast.now)
                 THEN /\ Len(cwLast.emitted) = 1
                      /\ cwLast.emitted[1].kind = "Closed"
                 ELSE cwLast.emitted = << >>

\* C31 witness: robot.py's watcher emitted a second event after the
\* notification of the first one had ended with an exception
C31_Witness ==
    /\ nfMode = "raises"
    /\ nfFailed
    /\ events = 2
    /\ lastUpd.con # None
    /\ lastUpd.emitted # << >>
    /\ baseline[Val(lastUpd.con)] = lastUpd.new

----------------------------------------------------------------------------
(* Further properties of the backfill *)

\* timestamps stored in a table
StoredTs(t) == {r.ts : r \in Rows(t)}

\* C33: the response of a backfill window adds to the store no bar with
\* ts < window_start, the start of the window being processed, whatever the
\* feed returned for that window.
C33_BackfillFiltersWindow ==
    [][pc = "bf_wait" =>
          /\ \A t \in StoredTs(tables'[bf.sym]) \ StoredTs(tables[bf.sym]) :
                t >= bf.start
          /\ lastIns' # lastIns =>
                \A i \in DOMAIN lastIns'.rows : lastIns'.rows[i].ts >= bf.start]_vars

\* C33 witness: rows of the first window of a symbol were stored while the
\* feed holds a bar just before the start of that window, which is not in
\* the store
C33_Witness ==
    /\ pc = "bf_loop"
    /\ bf.start > bf.start0
    /\ lastIns.sym = bf.sym
    /\ lastIns.rows # << >>
    /\ bf.start = WindowEnd(bf.start0, bf.now) + 1
    /\ \E t \in feedTs[bf.sym] :
          /\ t < bf.start0
          /\ t >= bf.start0 - EarlySlack
          /\ ~HasTs(tables[bf.sym], t)

----------------------------------------------------------------------------
(* Further properties of the poll loop *)

----------------------------------------------------------------------------
(* Closure of the roster *)

\* C35 (as claimed): for every valid quarterly symbol with one year digit,
\* month Z with digit 9 and month H with digit 0 included, previous, active
\* and next are again valid quarterly symbols <ROOT><MONTH><one digit> that
\* the roster computation accepts.
C35_RosterClosed ==
    SeedRosterDone =>
        /\ rosterOut.st = "ok"
        /\ rosterOut.prev \in ValidSymbols
        /\ rosterOut.active \in ValidSymbols
        /\ rosterOut.next \in ValidSymbols
        /\ RosterOf(rosterOut.prev).st = "ok"
        /\ RosterOf(rosterOut.next).st = "ok"

----------------------------------------------------------------------------
(* Range and changes of the backoff delay *)

MaxCfgDelay == 6            \* largest delay of the configurations tried

\* C36: with base_retry_delay <= max_retry_delay the backoff delay stays in
\* base..max; it changes only by the capped doubling of a failed reconnect
\* or by the reset to base of a successful connect, and neither a health
\* check that finds the connection alive nor the unexpected-error branch
\* changes it.
C36_BackoffRange ==
    /\ [](/\ BaseRetryDelay <= backoff
          /\ backoff <= MaxRetryDelay
          /\ \A base \in 0..MaxCfgDelay : \A max_ \in base..MaxCfgDelay :
                \A cur \in base..max_ :
                    /\ base <= BackoffNextOf(cur, max_)
                    /\ BackoffNextOf(cur, max_) <= max_)
    /\ [][/\ (monPc = "connecting" /\ monPc' = "top" /\ ~svcConnected')
                => backoff' = Min(2 * backoff, MaxRetryDelay)
          /\ (~svcConnected /\ svcConnected') => backoff' = BaseRetryDelay
          /\ backoff' # backoff
                => /\ monPc \in {"new", "connecting"}
                   /\ monPc' \in {"connected_initial", "top"}
          /\ (monPc \in {"top", "sleep_period", "sleep_error"}
                \/ monPc' = "sleep_error") => backoff' = backoff]_vars

\* C36 witness: the unexpected-error branch is taken while the delay stands
\* at the maximum after a run of failed reconnects
C36_Witness ==
    /\ monPc = "sleep_error"
    /\ ~svcConnected
    /\ backoff = MaxRetryDelay
    /\ Len(waits) >= 6

----------------------------------------------------------------------------
(* BarsCollector.stop against run *)

\* C37 (as claimed): after stop() closed the connection no _ensure_table
\* (the first statement of a symbol's backfill and of a symbol's poll) is
\* attempted on it, whether stop() came before run(), during the backfill
\* or inside a tick, and run() does not set _running again once stop() has
\* cleared it.
C37_NoUseAfterClose ==
    /\ [][(/\ pc \in {"backfill", "tick"}
           /\ idx <= Len(symList)
           /\ (pc' # pc \/ idx' # idx)) => connOpen]_vars
    /\ [][(stopPc # "idle" /\ ~running) => ~running']_vars

----------------------------------------------------------------------------
(* Handlers attached by robot.amain *)

\* C38: across the connect, drop and error cycles of amain at most one
\* PortfolioWatcher handler is attached to the portfolio-update event, so no
\* update is classified and announced by more than one watcher.
C38_OneHandlerAttached ==
    /\ Cardinality(amHandlers) <= 1
    /\ amHandlers \subseteq {amCycle}

\* C38 witness: the third watcher is attached alone, after two sessions
\* that ended with a drop and after failed connects
C38_Witness ==
    /\ amPc = "session"
    /\ amCycle = 3
    /\ amHandlers = {3}
    /\ amRetry >= 4 * BaseRetryDelay

----------------------------------------------------------------------------
(* Termination of TelegramLogPump.stop *)

\* C39 (as claimed): stop() always completes, whatever send() calls are
\* interleaved with it, the ones that find the queue full included: the
\* pump task receives the sentinel and ends; and when it has ended, every
\* message sent before stop() and not dropped by overflow was delivered, in
\* the order of the sends.
C39_StopCompletes ==
    /\ (pumpStopPc \in {"putting", "awaiting"}) ~> (pumpStopPc = "done")
    /\ [](pumpPc = "done" =>
             \A m \in 1..pumpSentAtStop :
                m \in pumpDropped \/ \E i \in 1..Len(pumpDelivered) :
                                        pumpDelivered[i] = m)
    /\ [](\A i, j \in 1..Len(pumpDelivered) :
             i < j => pumpDelivered[i] < pumpDelivered[j])

====
